---------------------------- MODULE Spec2Model ----------------------------
(***************************************************************************)
(* A model of the rvmat library: the lexer, the recursive-descent parser   *)
(* that builds a Material, the texture normalization applied to a stage's  *)
(* texture, and the canonical writer.                                      *)
(*                                                                         *)
(* Text is a sequence of characters, each character a one-letter string    *)
(* (the NUL byte and the byte-order mark are the atoms "NUL" and "BOM").   *)
(* A float64 is kept as Go's decimal form of it: a sign, the significant   *)
(* digits without leading or trailing zeros, and the position dp of the    *)
(* decimal point (the value is 0.d1d2... * 10^dp).  Within the literals    *)
(* used here (at most 15 significant digits, exponents far from 308) that  *)
(* form is exact and strconv's shortest formatting returns its digits.     *)
(***************************************************************************)
EXTENDS Integers, Sequences, FiniteSets, TLC

\* With([x \in {e} |-> b]) is b with x standing for the value of e
With(f) == f[CHOOSE x \in DOMAIN f : TRUE]

(***************************************************************************)
(* Characters                                                              *)
(***************************************************************************)
Q   == "\""
BS  == "\\"
NL  == "\n"
NUL == "NUL"
BOM == "BOM"

LowerSeq == <<"a","b","c","d","e","f","g","h","i","j","k","l","m",
              "n","o","p","q","r","s","t","u","v","w","x","y","z">>
UpperSeq == <<"A","B","C","D","E","F","G","H","I","J","K","L","M",
              "N","O","P","Q","R","S","T","U","V","W","X","Y","Z">>
DigitSeq == <<"0","1","2","3","4","5","6","7","8","9">>

Lower  == {LowerSeq[k] : k \in 1..Len(LowerSeq)}
Upper  == {UpperSeq[k] : k \in 1..Len(UpperSeq)}
Digits == {DigitSeq[k] : k \in 1..Len(DigitSeq)}
Spaces == {" ", "\t", "\n", "\r"}

ToLowerMap == [c \in Upper |-> LowerSeq[CHOOSE k \in 1..Len(UpperSeq) : UpperSeq[k] = c]]

asciiLower(c) == IF c \in Upper THEN ToLowerMap[c] ELSE c

ToLower(s) == [k \in 1..Len(s) |-> asciiLower(s[k])]

\* strings.EqualFold on the ASCII texts of the model
EqualFold(a, b) == ToLower(a) = ToLower(b)

HasPrefix(s, pre) == Len(s) >= Len(pre) /\ SubSeq(s, 1, Len(pre)) = pre
HasSuffix(s, suf) == Len(s) >= Len(suf) /\ SubSeq(s, Len(s) - Len(suf) + 1, Len(s)) = suf
TrimSuffix(s, suf) == IF HasSuffix(s, suf) THEN SubSeq(s, 1, Len(s) - Len(suf)) ELSE s

\* strings.TrimSpace
TrimSpace(s) ==
    With([keep \in {{k \in 1..Len(s) : s[k] \notin Spaces}} |->
    IF keep = {} THEN <<>>
    ELSE SubSeq(s, CHOOSE k \in keep : \A j \in keep : k <= j,
                   CHOOSE k \in keep : \A j \in keep : k >= j)])

isIdentStart(c)  == c \in Lower \cup Upper \cup {"_", "$"}
isIdentPart(c)   == c \in Lower \cup Upper \cup Digits \cup {"_", "$"}
isNumberStart(c) == c \in Digits \cup {"-"}
isWordPart(c)    == isIdentPart(c) \/ c \in {".", "+", "-"}

(***************************************************************************)
(* Numbers: strconv.ParseFloat and strconv.AppendFloat(v, 'g', -1, 64)     *)
(***************************************************************************)
DigitVal(c) == (CHOOSE k \in 1..Len(DigitSeq) : DigitSeq[k] = c) - 1

RECURSIVE DigitsToInt(_)
DigitsToInt(ds) ==
    IF ds = <<>> THEN 0
    ELSE 10 * DigitsToInt(SubSeq(ds, 1, Len(ds) - 1)) + DigitVal(ds[Len(ds)])

RECURSIVE IntToDigits(_)
IntToDigits(n) ==
    IF n < 10 THEN <<DigitSeq[n + 1]>>
    ELSE Append(IntToDigits(n \div 10), DigitSeq[(n % 10) + 1])

\* the end of the run of characters of set S that starts at s[k]
RECURSIVE SpanEnd(_, _, _)
SpanEnd(s, k, S) ==
    IF k <= Len(s) /\ s[k] \in S THEN SpanEnd(s, k + 1, S) ELSE k

RECURSIVE StripLeadingZeros(_, _)
StripLeadingZeros(ds, dp) ==
    IF ds # <<>> /\ ds[1] = "0" THEN StripLeadingZeros(Tail(ds), dp - 1)
    ELSE [digs |-> ds, dp |-> dp]

RECURSIVE StripTrailingZeros(_)
StripTrailingZeros(ds) ==
    IF ds # <<>> /\ ds[Len(ds)] = "0"
    THEN StripTrailingZeros(SubSeq(ds, 1, Len(ds) - 1))
    ELSE ds

Zero == [neg |-> FALSE, digs |-> <<>>, dp |-> 0]

MkNum(neg, allDigits, dp0) ==
    With([a \in {StripLeadingZeros(allDigits, dp0)} |->
    With([d \in {StripTrailingZeros(a.digs)} |->
    [neg |-> neg, digs |-> d, dp |-> IF d = <<>> THEN 0 ELSE a.dp]])])

\* strconv.ParseFloat(s, 64) on the decimal grammar
\*   [+-] digits [. digits] [ (e|E) [+-] digits ]    (at least one digit)
\* returning [ok, num].  The words inf, infinity and nan and hexadecimal
\* floats, which strconv also accepts, are not among the model's inputs.
ParseFloat(s) ==
    With([bad \in {[ok |-> FALSE, num |-> Zero]} |->
    With([hasSg \in {s # <<>> /\ s[1] \in {"+", "-"}} |->
    With([neg \in {hasSg /\ s[1] = "-"} |->
    With([i0 \in {IF hasSg THEN 2 ELSE 1} |->
    With([i1 \in {SpanEnd(s, i0, Digits)} |->
    With([ip \in {SubSeq(s, i0, i1 - 1)} |->
    With([dot \in {i1 <= Len(s) /\ s[i1] = "."} |->
    With([f0 \in {IF dot THEN i1 + 1 ELSE i1} |->
    With([f1 \in {SpanEnd(s, f0, Digits)} |->
    With([fp \in {SubSeq(s, f0, f1 - 1)} |->
    With([hasE \in {f1 <= Len(s) /\ s[f1] \in {"e", "E"}} |->
    With([eSg \in {hasE /\ f1 + 1 <= Len(s) /\ s[f1 + 1] \in {"+", "-"}} |->
    With([e0 \in {IF eSg THEN f1 + 2 ELSE f1 + 1} |->
    With([e1 \in {SpanEnd(s, e0, Digits)} |->
    With([ev \in {DigitsToInt(SubSeq(s, e0, e1 - 1))} |->
    With([exp \in {IF ~hasE THEN 0
                 ELSE IF eSg /\ s[f1 + 1] = "-" THEN 0 - ev ELSE ev} |->
    With([last \in {IF hasE THEN e1 ELSE f1} |->
    IF ip = <<>> /\ fp = <<>> THEN bad
    ELSE IF hasE /\ e1 = e0 THEN bad
    ELSE IF last # Len(s) + 1 THEN bad
    ELSE [ok |-> TRUE, num |-> MkNum(neg, ip \o fp, Len(ip) + exp)]])])])])])])])])])])])])])])])])])

Zeros(n) == [k \in 1..n |-> "0"]

\* %e of strconv: d.ddd e(+|-)dd
fmtE(x) ==
    With([nd \in {Len(x.digs)} |->
    With([exp \in {x.dp - 1} |->
    With([mag \in {IF exp < 0 THEN 0 - exp ELSE exp} |->
    With([ed \in {IntToDigits(mag)} |->
    (IF x.neg THEN <<"-">> ELSE <<>>)
    \o <<x.digs[1]>>
    \o (IF nd > 1 THEN <<".">> \o SubSeq(x.digs, 2, nd) ELSE <<>>)
    \o <<"e", IF exp < 0 THEN "-" ELSE "+">>
    \o (IF mag < 10 THEN <<"0">> \o ed ELSE ed)])])])])

\* %f of strconv with max(nd-dp, 0) digits after the point
fmtF(x) ==
    With([nd \in {Len(x.digs)} |->
    With([prec \in {IF nd - x.dp > 0 THEN nd - x.dp ELSE 0} |->
    With([int \in {IF x.dp > 0
                THEN [k \in 1..x.dp |-> IF k <= nd THEN x.digs[k] ELSE "0"]
                ELSE <<"0">>} |->
    With([frac \in {[k \in 1..prec |->
                   IF x.dp + k >= 1 /\ x.dp + k <= nd THEN x.digs[x.dp + k] ELSE "0"]} |->
    (IF x.neg THEN <<"-">> ELSE <<>>)
    \o int
    \o (IF prec > 0 THEN <<".">> \o frac ELSE <<>>)])])])])

\* the exponent threshold of %g when the precision is the shortest one
ShortestEprec == 6

FormatFloat(x) ==
    With([exp \in {x.dp - 1} |->
    IF x.digs # <<>> /\ (exp < -4 \/ exp >= ShortestEprec) THEN fmtE(x) ELSE fmtF(x)])


(***************************************************************************)
(* Errors and tokens                                                       *)
(***************************************************************************)
\* an error value: kind is "nil" (no error), "ErrBinaryRVMAT", "ErrLex" or
\* "ErrParse"; at is the offset of the character or token it is reported at
NoErr == [kind |-> "nil", msg |-> "", at |-> 0]
ErrBinaryRVMAT == [kind |-> "ErrBinaryRVMAT", msg |-> "binary rvmat", at |-> 0]
LexError(msg, at) == [kind |-> "ErrLex", msg |-> msg, at |-> at]
ParseError(tok, msg) == [kind |-> "ErrParse", msg |-> msg, at |-> tok.at]

Token(type, lit, at) == [Type |-> type, Lit |-> lit, at |-> at]
\* the zero token the lexer returns beside an unexpected-character error
ZeroToken == Token("tokEOF", <<>>, 0)

PunctType(c) ==
    CASE c = "{" -> "tokLBrace"
      [] c = "}" -> "tokRBrace"
      [] c = "[" -> "tokLBracket"
      [] c = "]" -> "tokRBracket"
      [] c = "=" -> "tokEqual"
      [] c = ";" -> "tokSemicolon"
      [] c = ":" -> "tokColon"
      [] c = "," -> "tokComma"
Punct == {"{", "}", "[", "]", "=", ";", ":", ","}

(***************************************************************************)
(* Lexer.  The position i of the lexer is the index of its current         *)
(* character l.ch in the text; l.eof holds when i is past the end.         *)
(***************************************************************************)
\* lexer.peek: the character after the current one, 0 at the end
lexPeek(text, i) == IF i + 1 <= Len(text) THEN text[i + 1] ELSE NUL

\* a line comment that runs to the end of the input
skipLineCommentToEnd(text, i) == Len(text) + 1

RECURSIVE skipLineComment(_, _)
skipLineComment(text, i) ==
    IF i <= Len(text) /\ text[i] # NL THEN skipLineComment(text, i + 1) ELSE i

\* the body of a block comment: the result is the index after the closing
\* star-slash, or past the end when the comment is not closed
RECURSIVE skipBlockComment(_, _)
skipBlockComment(text, i) ==
    IF i > Len(text) THEN i
    ELSE IF text[i] = "*" /\ lexPeek(text, i) = "/" THEN i + 2
    ELSE skipBlockComment(text, i + 1)

\* a skipWhitespace that knows no comments
skipSpaces(text, i, opt) == SpanEnd(text, i, Spaces)

\* a skipWhitespace that stops at the last character of an unclosed block
\* comment, not behind it
RECURSIVE skipWhitespaceBack(_, _, _)
skipWhitespaceBack(text, i, opt) ==
    With([j \in {SpanEnd(text, i, Spaces)} |->
    IF j > Len(text) THEN j
    ELSE IF ~opt.DisableComments /\ text[j] = "/" /\ lexPeek(text, j) = "/"
         THEN skipWhitespaceBack(text, skipLineComment(text, j + 2), opt)
    ELSE IF ~opt.DisableComments /\ text[j] = "/" /\ lexPeek(text, j) = "*"
         THEN With([k \in {skipBlockComment(text, j + 2)} |->
              IF k > Len(text) THEN Len(text) ELSE skipWhitespaceBack(text, k, opt)])
    ELSE j])

RECURSIVE skipWhitespace(_, _, _)
skipWhitespace(text, i, opt) ==
    With([j \in {SpanEnd(text, i, Spaces)} |->
    IF j > Len(text) THEN j
    ELSE IF ~opt.DisableComments /\ text[j] = "/" /\ lexPeek(text, j) = "/"
         THEN skipWhitespace(text, skipLineComment(text, j + 2), opt)
    ELSE IF ~opt.DisableComments /\ text[j] = "/" /\ lexPeek(text, j) = "*"
         THEN With([k \in {skipBlockComment(text, j + 2)} |->
              IF k > Len(text) THEN k ELSE skipWhitespace(text, k, opt)])
    ELSE j])

readIdent(text, i) == SpanEnd(text, i, Lower \cup Upper \cup Digits \cup {"_", "$"})

readNumberOrIdent(text, i) ==
    SpanEnd(text, i, Lower \cup Upper \cup Digits \cup {"_", "$", ".", "+", "-"})

\* lexer.readString from the character after the opening quote
RECURSIVE readString(_, _, _)
readString(text, j, acc) ==
    IF j > Len(text) THEN [lit |-> <<>>, next |-> j, ok |-> FALSE]
    ELSE IF text[j] = Q
         THEN IF lexPeek(text, j) = Q
              THEN readString(text, j + 2, Append(acc, Q))
              ELSE [lit |-> acc, next |-> j + 1, ok |-> TRUE]
    ELSE IF text[j] = BS /\ lexPeek(text, j) \in {BS, Q}
         THEN readString(text, j + 2, Append(acc, text[j + 1]))
    ELSE readString(text, j + 1, Append(acc, text[j]))

\* the words strconv.ParseFloat accepts beside the decimal grammar: inf and
\* infinity with an optional sign, and nan, in any letter case
Special(s) ==
    \/ ToLower(IF s # <<>> /\ s[1] \in {"+", "-"} THEN Tail(s) ELSE s)
          \in {<<"i","n","f">>, <<"i","n","f","i","n","i","t","y">>}
    \/ ToLower(s) = <<"n","a","n">>

\* isValidNumber without the test of the characters
isValidNumberAnyChar(s) ==
    /\ s # <<>>
    /\ ParseFloat(s).ok \/ Special(s)

isValidNumber(s) ==
    /\ s # <<>>
    /\ \A k \in 1..Len(s) : s[k] \in Digits \cup {".", "+", "-", "e", "E"}
    /\ ParseFloat(s).ok \/ Special(s)

\* lexer.next from position i: [tok, err, next], next the position after it
lexNext(text, i0, opt) ==
    With([i \in {skipWhitespace(text, i0, opt)} |->
    IF i > Len(text)
    THEN [tok |-> Token("tokEOF", <<>>, i), err |-> NoErr, next |-> i]
    ELSE
    With([c \in {text[i]} |->
    IF c \in Punct
    THEN [tok |-> Token(PunctType(c), <<c>>, i), err |-> NoErr, next |-> i + 1]
    ELSE IF c = Q
    THEN With([r \in {readString(text, i + 1, <<>>)} |->
         [tok  |-> Token("tokString", r.lit, i),
          err  |-> IF r.ok THEN NoErr
                   ELSE LexError("unterminated string", r.next),
          next |-> r.next]])
    ELSE IF isIdentStart(c)
    THEN With([j \in {readIdent(text, i)} |->
         With([lit \in {SubSeq(text, i, j - 1)} |->
         [tok  |-> Token(IF EqualFold(lit, <<"c","l","a","s","s">>)
                         THEN "tokClass" ELSE "tokIdent", lit, i),
          err  |-> NoErr,
          next |-> j]])])
    ELSE IF isNumberStart(c)
    THEN With([j \in {readNumberOrIdent(text, i)} |->
         With([lit \in {SubSeq(text, i, j - 1)} |->
         [tok  |-> Token(IF isValidNumber(lit)
                         THEN "tokNumber" ELSE "tokIdent", lit, i),
          err  |-> NoErr,
          next |-> j]])])
    ELSE [tok |-> ZeroToken, err |-> LexError("unexpected character", i),
          next |-> i]])])

\* newLexer: the first character is read and a byte-order mark is skipped
newLexer(text) == IF text # <<>> /\ text[1] = BOM THEN 2 ELSE 1

(***************************************************************************)
(* Parser.  p.pos is the position of its lexer in p.text, p.i counts the   *)
(* calls of lexer.next (the next call is the p.i-th), p.has and p.buf are  *)
(* the one-token lookahead buffer.  p.lexerr records the first error the   *)
(* lexer returned to the parser (nil while it returned none); the parser   *)
(* never reads it.                                                         *)
(***************************************************************************)
newParser(text, opt) ==
    [text |-> text, opt |-> opt, pos |-> newLexer(text), i |-> 1,
     has |-> FALSE, buf |-> ZeroToken, lexerr |-> NoErr]

\* the parser after a call of lexer.next that returned r
Lexed(p, r) ==
    [p EXCEPT !.pos = r.next, !.i = @ + 1,
              !.lexerr = IF @ = NoErr THEN r.err ELSE @]

next(p) ==
    IF p.has
    THEN [p |-> [p EXCEPT !.has = FALSE], tok |-> p.buf, err |-> NoErr]
    ELSE With([r \in {lexNext(p.text, p.pos, p.opt)} |->
         [p |-> Lexed(p, r), tok |-> r.tok, err |-> r.err]])

\* peek that does not mark its buffer as filled
peekNoBuffer(p) ==
    IF p.has
    THEN [p |-> p, tok |-> p.buf, err |-> NoErr]
    ELSE With([r \in {lexNext(p.text, p.pos, p.opt)} |->
         IF r.err # NoErr
         THEN [p |-> Lexed(p, r), tok |-> r.tok, err |-> r.err]
         ELSE [p   |-> [Lexed(p, r) EXCEPT !.buf = r.tok],
               tok |-> r.tok,
               err |-> NoErr]])

peek(p) ==
    IF p.has
    THEN [p |-> p, tok |-> p.buf, err |-> NoErr]
    ELSE With([r \in {lexNext(p.text, p.pos, p.opt)} |->
         IF r.err # NoErr
         THEN [p |-> Lexed(p, r), tok |-> r.tok, err |-> r.err]
         ELSE [p   |-> [Lexed(p, r) EXCEPT !.buf = r.tok, !.has = TRUE],
               tok |-> r.tok,
               err |-> NoErr]])

tokenName(tt) ==
    CASE tt = "tokIdent"     -> "expected identifier"
      [] tt = "tokNumber"    -> "expected number"
      [] tt = "tokLBrace"    -> "expected {"
      [] tt = "tokRBrace"    -> "expected }"
      [] tt = "tokRBracket"  -> "expected ]"
      [] tt = "tokEqual"     -> "expected ="
      [] tt = "tokSemicolon" -> "expected ;"
      [] tt = "tokClass"     -> "expected class"
      [] OTHER               -> "expected token"

expect(p, tt) ==
    With([r \in {next(p)} |->
    IF r.err # NoErr THEN r
    ELSE IF r.tok.Type # tt
         THEN [r EXCEPT !.err = ParseError(r.tok, tokenName(tt))]
    ELSE r])

expectSemicolon(p) == expect(p, "tokSemicolon")

\* a matchKey that folds case whatever the option says
matchKeyFold(a, b, ci) == EqualFold(a, b)

matchKey(a, b, ci) == IF ci THEN EqualFold(a, b) ELSE a = b

equalFold(a, b, opt) == IF ~opt.DisableCaseInsensitive THEN EqualFold(a, b) ELSE a = b

hasPrefixKey(s, prefix, ci) ==
    IF ~ci THEN HasPrefix(s, prefix)
    ELSE /\ Len(s) >= Len(prefix)
         /\ \A k \in 1..Len(prefix) : asciiLower(s[k]) = prefix[k]

\* an isStageName that folds case whatever the option says
isStageNameFold(name, opt) == hasPrefixKey(name, <<"s","t","a","g","e">>, TRUE)

isStageName(name, opt)  == hasPrefixKey(name, <<"s","t","a","g","e">>, ~opt.DisableCaseInsensitive)
isTexGenName(name, opt) == hasPrefixKey(name, <<"t","e","x","g","e","n">>, ~opt.DisableCaseInsensitive)

RECURSIVE TrimTrailingDots(_)
TrimTrailingDots(s) ==
    IF s # <<>> /\ s[Len(s)] = "." THEN TrimTrailingDots(SubSeq(s, 1, Len(s) - 1)) ELSE s

parseNumberToken(tok) ==
    IF tok.Type = "tokNumber" THEN ParseFloat(tok.Lit)
    ELSE IF tok.Type \in {"tokString", "tokIdent"}
         THEN With([s \in {TrimTrailingDots(TrimSpace(tok.Lit))} |->
              IF s = <<>> THEN [ok |-> FALSE, num |-> Zero] ELSE ParseFloat(s)])
    ELSE [ok |-> FALSE, num |-> Zero]

\* values and nodes
NumberValue(f) == [Kind |-> "valueNumber", Str |-> <<>>, Num |-> f, Array |-> <<>>]
StringValue(s) == [Kind |-> "valueString", Str |-> s, Num |-> Zero, Array |-> <<>>]
IdentValue(s)  == [Kind |-> "valueIdent", Str |-> s, Num |-> Zero, Array |-> <<>>]
ArrayValue(a)  == [Kind |-> "valueArray", Str |-> <<>>, Num |-> Zero, Array |-> a]
\* value{}: the zero value
NoValue        == NumberValue(Zero)

assignNode(name, isArray, val) ==
    [type |-> "assignNode", Name |-> name, IsArray |-> isArray, Value |-> val]
classNode(name, base, body) ==
    [type |-> "classNode", Name |-> name, Base |-> base, Body |-> body]

\* what a parsing function returns: the parser after it, the error, the value
Ret(p, err, v) == [p |-> p, err |-> err, v |-> v]

RECURSIVE parseValue(_), parseArrayFrom(_, _)
parseValue(p) ==
    With([r \in {next(p)} |->
    IF r.err # NoErr THEN Ret(r.p, r.err, NoValue)
    ELSE IF r.tok.Type = "tokNumber"
         THEN With([f \in {ParseFloat(r.tok.Lit)} |->
              IF ~f.ok THEN Ret(r.p, ParseError(r.tok, "invalid number"), NoValue)
              ELSE Ret(r.p, NoErr, NumberValue(f.num))])
    ELSE IF r.tok.Type = "tokString" THEN Ret(r.p, NoErr, StringValue(r.tok.Lit))
    ELSE IF r.tok.Type = "tokIdent" THEN Ret(r.p, NoErr, IdentValue(r.tok.Lit))
    ELSE IF r.tok.Type = "tokLBrace"
         THEN With([a \in {parseArrayFrom(r.p, <<>>)} |->
              Ret(a.p, a.err, ArrayValue(a.v))])
    ELSE Ret(r.p, ParseError(r.tok, "unexpected token"), NoValue)])

\* parser.parseArray, its loop entered with the elements read so far
parseArrayFrom(p, arr) ==
    With([k \in {peek(p)} |->
    IF k.err # NoErr THEN Ret(k.p, k.err, <<>>)
    ELSE IF k.tok.Type = "tokRBrace" THEN Ret(next(k.p).p, NoErr, arr)
    ELSE
    With([v \in {parseValue(k.p)} |->
    IF v.err # NoErr THEN Ret(v.p, v.err, <<>>)
    ELSE
    With([k2 \in {peek(v.p)} |->
    IF k2.err # NoErr THEN Ret(k2.p, k2.err, <<>>)
    ELSE IF k2.tok.Type = "tokComma"
         THEN parseArrayFrom(next(k2.p).p, Append(arr, v.v))
    ELSE IF k2.tok.Type = "tokRBrace"
         THEN parseArrayFrom(k2.p, Append(arr, v.v))
    ELSE Ret(k2.p, ParseError(k2.tok, "expected ',' or '}' in array"), <<>>)])])])

parseArray(p) == parseArrayFrom(p, <<>>)

\* the loop of parser.parseNumberArrayWithRelax
RECURSIVE numberArrayFrom(_, _, _)
numberArrayFrom(p, relaxed, arr) ==
    With([k \in {peek(p)} |->
    IF k.err # NoErr THEN Ret(k.p, k.err, <<>>)
    ELSE IF k.tok.Type = "tokRBrace" THEN Ret(next(k.p).p, NoErr, arr)
    ELSE
    With([n \in {next(k.p)} |->
    With([f \in {parseNumberToken(n.tok)} |->
    IF n.err # NoErr THEN Ret(n.p, n.err, <<>>)
    ELSE IF ~f.ok /\ ~relaxed
         THEN Ret(n.p, ParseError(n.tok, "expected number"), <<>>)
    ELSE
    With([x \in {IF f.ok THEN f.num ELSE Zero} |->
    With([k2 \in {peek(n.p)} |->
    IF k2.err # NoErr THEN Ret(k2.p, k2.err, <<>>)
    ELSE IF k2.tok.Type = "tokComma"
         THEN numberArrayFrom(next(k2.p).p, relaxed, Append(arr, x))
    ELSE IF k2.tok.Type = "tokRBrace"
         THEN numberArrayFrom(k2.p, relaxed, Append(arr, x))
    ELSE Ret(k2.p, ParseError(k2.tok, "expected ',' or '}' in array"), <<>>)])])])])])

parseNumberArrayWithRelax(p, relaxed) ==
    With([b \in {expect(p, "tokLBrace")} |->
    IF b.err # NoErr THEN Ret(b.p, b.err, <<>>)
    ELSE numberArrayFrom(b.p, relaxed, <<>>)])

\* a parseNumberArray that never relaxes
parseNumberArrayStrict(p) == parseNumberArrayWithRelax(p, FALSE)

parseNumberArray(p) == parseNumberArrayWithRelax(p, ~p.opt.DisableRelaxedNumbers)

parseNumberValue(p) ==
    With([t \in {expect(p, "tokNumber")} |->
    With([f \in {parseNumberToken(t.tok)} |->
    IF t.err # NoErr THEN Ret(t.p, t.err, Zero)
    ELSE IF f.ok THEN Ret(t.p, NoErr, f.num)
    ELSE Ret(t.p, ParseError(t.tok, "invalid number"), Zero)])])

parseStringValue(p) ==
    With([t \in {next(p)} |->
    IF t.err # NoErr THEN Ret(t.p, t.err, <<>>)
    ELSE IF t.tok.Type \in {"tokString", "tokIdent"} THEN Ret(t.p, NoErr, t.tok.Lit)
    ELSE Ret(t.p, ParseError(t.tok, "expected string"), <<>>)])

parseStringOrNumberValue(p, relaxed) ==
    With([t \in {next(p)} |->
    IF t.err # NoErr THEN Ret(t.p, t.err, <<>>)
    ELSE IF t.tok.Type \in {"tokString", "tokIdent", "tokNumber"}
         THEN Ret(t.p, NoErr, t.tok.Lit)
    ELSE IF relaxed THEN Ret(t.p, NoErr, t.tok.Lit)
    ELSE Ret(t.p, ParseError(t.tok, "expected string"), <<>>)])

\* "if tok, _ := p.peek(); tok.Type == tokColon { ... base = btok.Lit }":
\* the optional base class after a class name; the error of peek is dropped
parseBase(p) ==
    With([k \in {peek(p)} |->
    IF k.tok.Type = "tokColon"
    THEN With([b \in {expect(next(k.p).p, "tokIdent")} |->
         Ret(b.p, b.err, IF b.err = NoErr THEN b.tok.Lit ELSE <<>>)])
    ELSE Ret(k.p, NoErr, <<>>)])

\* "if tok, _ := p.peek(); tok.Type == tokLBracket { ... isArray = true }":
\* the optional [] after an assignment's name; the error of peek is dropped
parseArraySuffix(p) ==
    With([k \in {peek(p)} |->
    IF k.tok.Type = "tokLBracket"
    THEN With([b \in {expect(next(k.p).p, "tokRBracket")} |->
         Ret(b.p, b.err, b.err = NoErr)])
    ELSE Ret(k.p, NoErr, FALSE)])

\* the head of an assignment: name, optional [], '='; v is [name, isArray]
parseAssignHead(p) ==
    With([n \in {expect(p, "tokIdent")} |->
    With([a \in {parseArraySuffix(n.p)} |->
    With([e \in {expect(a.p, "tokEqual")} |->
    With([h \in {[name |-> n.tok.Lit, isArray |-> a.v]} |->
    IF n.err # NoErr THEN Ret(n.p, n.err, [name |-> <<>>, isArray |-> FALSE])
    ELSE IF a.err # NoErr THEN Ret(a.p, a.err, [name |-> <<>>, isArray |-> FALSE])
    ELSE Ret(e.p, e.err, h)])])])])

\* the head of a class: 'class', name, optional base; v is [name, base]
parseClassHead(p) ==
    With([c \in {expect(p, "tokClass")} |->
    With([n \in {expect(c.p, "tokIdent")} |->
    With([b \in {parseBase(n.p)} |->
    With([h \in {[name |-> n.tok.Lit, base |-> b.v]} |->
    IF c.err # NoErr THEN Ret(c.p, c.err, [name |-> <<>>, base |-> <<>>])
    ELSE IF n.err # NoErr THEN Ret(n.p, n.err, [name |-> <<>>, base |-> <<>>])
    ELSE Ret(b.p, b.err, h)])])])])

(***************************************************************************)
(* Texture references (the part a Stage stores and the writer reads)       *)
(***************************************************************************)
NormalizeTextureRaw(raw) ==
    With([s \in {TrimSpace(raw)} |->
    With([ls \in {ToLower(s)} |->
    With([pre \in {<<"t","e","x","t","u","r","e","=",Q>>} |->
    IF HasPrefix(ls, pre)
    THEN TrimSpace(TrimSuffix(TrimSuffix(SubSeq(s, Len(pre) + 1, Len(s)),
                                         <<Q, ";">>), <<Q>>))
    ELSE TrimSpace(TrimSuffix(s, <<Q, ";">>))])])])

\* strings.Index and strings.LastIndex for one character, counted from 1;
\* 0 when the character does not occur
IndexByte(s, c) ==
    IF \E k \in 1..Len(s) : s[k] = c
    THEN CHOOSE k \in 1..Len(s) : s[k] = c /\ \A j \in 1..(k - 1) : s[j] # c
    ELSE 0

LastIndexByte(s, c) ==
    IF \E k \in 1..Len(s) : s[k] = c
    THEN CHOOSE k \in 1..Len(s) : s[k] = c /\ \A j \in (k + 1)..Len(s) : s[j] # c
    ELSE 0

\* strings.Split(s, ",")
RECURSIVE Split(_)
Split(s) ==
    With([k \in {IndexByte(s, ",")} |->
    IF k = 0 THEN <<s>>
    ELSE <<SubSeq(s, 1, k - 1)>> \o Split(SubSeq(s, k + 1, Len(s)))])

splitCSV(s) ==
    IF TrimSpace(s) = <<>> THEN <<>>
    ELSE With([parts \in {Split(s)} |-> [k \in DOMAIN parts |-> TrimSpace(parts[k])]])

\* strconv.Atoi: an optional sign and decimal digits, [ok, n]
Atoi(s) ==
    With([sg \in {s # <<>> /\ s[1] \in {"+", "-"}} |->
    With([ds \in {IF sg THEN Tail(s) ELSE s} |->
    IF ds = <<>> \/ \E k \in DOMAIN ds : ds[k] \notin Digits
    THEN [ok |-> FALSE, n |-> 0]
    ELSE [ok |-> TRUE, n |-> IF sg /\ s[1] = "-" THEN 0 - DigitsToInt(ds) ELSE DigitsToInt(ds)]])])

\* strconv.Itoa
Itoa(n) == IF n < 0 THEN <<"-">> \o IntToDigits(0 - n) ELSE IntToDigits(n)

\* strings.Join(args, ",")
RECURSIVE Join(_)
Join(args) ==
    IF args = <<>> THEN <<>>
    ELSE IF Len(args) = 1 THEN args[1]
    ELSE args[1] \o <<",">> \o Join(Tail(args))

\* a parseFunc that takes a "(" at the start for the end of a name
parseFuncNoName(s) ==
    With([open \in {IndexByte(s, "(")} |->
    With([closeIdx \in {LastIndexByte(s, ")")} |->
    IF open < 1 \/ closeIdx <= open THEN [name |-> <<>>, args |-> <<>>, ok |-> FALSE]
    ELSE With([args \in {splitCSV(SubSeq(s, open + 1, closeIdx - 1))} |->
         [name |-> TrimSpace(SubSeq(s, 1, open - 1)),
          args |-> [k \in DOMAIN args |-> TrimSpace(args[k])],
          ok |-> TRUE]])])])

parseFunc(s) ==
    With([open \in {IndexByte(s, "(")} |->
    With([closeIdx \in {LastIndexByte(s, ")")} |->
    IF open <= 1 \/ closeIdx <= open THEN [name |-> <<>>, args |-> <<>>, ok |-> FALSE]
    ELSE With([args \in {splitCSV(SubSeq(s, open + 1, closeIdx - 1))} |->
         [name |-> TrimSpace(SubSeq(s, 1, open - 1)),
          args |-> [k \in DOMAIN args |-> TrimSpace(args[k])],
          ok |-> TRUE]])])])

parseFloatArg(s) ==
    With([t \in {TrimSpace(s)} |->
    IF t = <<>> THEN [ok |-> FALSE, num |-> Zero] ELSE ParseFloat(t)])

parseProceduralColor(pt) ==
    IF Len(pt.Args) # 4 /\ Len(pt.Args) # 5 THEN pt
    ELSE With([r \in {parseFloatArg(pt.Args[1])} |->
         With([g \in {parseFloatArg(pt.Args[2])} |->
         With([b \in {parseFloatArg(pt.Args[3])} |->
         With([a \in {parseFloatArg(pt.Args[4])} |->
         IF ~r.ok \/ ~g.ok \/ ~b.ok \/ ~a.ok THEN pt
         ELSE [pt EXCEPT !.Color =
                  << [R |-> r.num, G |-> g.num, B |-> b.num, A |-> a.num,
                      Tag |-> IF Len(pt.Args) = 5 THEN pt.Args[5] ELSE <<>>] >>]])])])])

parseProceduralFresnel(pt) ==
    IF Len(pt.Args) # 1 /\ Len(pt.Args) # 2 THEN pt
    ELSE With([a \in {parseFloatArg(pt.Args[1])} |->
         IF ~a.ok THEN pt
         ELSE IF Len(pt.Args) = 2
              THEN With([b \in {parseFloatArg(pt.Args[2])} |->
                   IF ~b.ok THEN pt
                   ELSE [pt EXCEPT !.Fresnel = << [A |-> a.num, B |-> b.num] >>]])
         ELSE [pt EXCEPT !.Fresnel = << [A |-> a.num, B |-> Zero] >>]])

parseProceduralIrradiance(pt) ==
    IF Len(pt.Args) # 1 THEN pt
    ELSE With([v \in {parseFloatArg(pt.Args[1])} |->
         IF ~v.ok THEN pt ELSE [pt EXCEPT !.Irradiance = << [Value |-> v.num] >>]])

\* a parseProceduralArgs that compares the name as written
parseProceduralArgsCased(pt) ==
    With([fn \in {pt.Func} |->
    IF fn = <<"c","o","l","o","r">> THEN parseProceduralColor(pt)
    ELSE IF fn = <<"f","r","e","s","n","e","l">> THEN parseProceduralFresnel(pt)
    ELSE IF fn = <<"f","r","e","s","n","e","l","g","l","a","s","s">> THEN parseProceduralFresnel(pt)
    ELSE IF fn = <<"i","r","r","a","d","i","a","n","c","e">> THEN parseProceduralIrradiance(pt)
    ELSE pt])

parseProceduralArgs(pt) ==
    With([fn \in {ToLower(pt.Func)} |->
    IF fn = <<"c","o","l","o","r">> THEN parseProceduralColor(pt)
    ELSE IF fn = <<"f","r","e","s","n","e","l">> THEN parseProceduralFresnel(pt)
    ELSE IF fn = <<"f","r","e","s","n","e","l","g","l","a","s","s">> THEN parseProceduralFresnel(pt)
    ELSE IF fn = <<"i","r","r","a","d","i","a","n","c","e">> THEN parseProceduralIrradiance(pt)
    ELSE pt])

\* parseProcedural: [ok, pt], pt a pointer
parseProcedural(raw) ==
    With([fail \in {[ok |-> FALSE, pt |-> <<>>]} |->
    With([closeIdx \in {IndexByte(raw, ")")} |->
    IF ~HasPrefix(raw, <<"#", "(">>) \/ closeIdx = 0 THEN fail
    ELSE With([headParts \in {splitCSV(SubSeq(raw, 3, closeIdx - 1))} |->
         IF Len(headParts) < 4 THEN fail
         ELSE With([w \in {Atoi(TrimSpace(headParts[2]))} |->
              With([h \in {Atoi(TrimSpace(headParts[3]))} |->
              With([mip \in {Atoi(TrimSpace(headParts[4]))} |->
              With([remain \in {TrimSpace(SubSeq(raw, closeIdx + 1, Len(raw)))} |->
              IF ~w.ok \/ ~h.ok \/ ~mip.ok \/ remain = <<>> THEN fail
              ELSE With([f \in {parseFunc(remain)} |->
                   IF ~f.ok THEN fail
                   ELSE [ok |-> TRUE,
                         pt |-> << parseProceduralArgs(
                                     [Color |-> <<>>, Fresnel |-> <<>>, Irradiance |-> <<>>,
                                      Format |-> TrimSpace(headParts[1]),
                                      Func |-> f.name, Args |-> f.args,
                                      Width |-> w.n, Height |-> h.n, Mip |-> mip.n]) >>]])])])])])])])])

\* TextureRef{}: the zero value of a Stage that has no texture assignment
NoTexture == [Procedural |-> <<>>, Raw |-> <<>>, Kind |-> "", ParsedOK |-> FALSE]

ParseTextureRef(raw) ==
    With([r \in {NormalizeTextureRaw(raw)} |->
    IF HasPrefix(r, <<"#", "(">>)
    THEN With([p \in {parseProcedural(r)} |->
         [Procedural |-> p.pt, Raw |-> r, Kind |-> "procedural", ParsedOK |-> p.ok]])
    ELSE [Procedural |-> <<>>, Raw |-> r, Kind |-> "path", ParsedOK |-> FALSE]])

(***************************************************************************)
(* The document model.  A pointer is a sequence of length 0 (nil) or 1.    *)
(***************************************************************************)
\* strconv.FormatFloat(v, 'g', -1, 64) of formatFloat
formatFloat(v) == FormatFloat(v)

\* formatProceduralArgs: an argument is [type, v] with type "string",
\* "float64" or "int"
formatProceduralArgs(args) ==
    [k \in DOMAIN args |->
        IF args[k].type = "string" THEN args[k].v
        ELSE IF args[k].type = "float64" THEN formatFloat(args[k].v)
        ELSE Itoa(args[k].v)]

buildProceduralRaw(format, width, height, mip, fn, args) ==
    <<"#", "(">> \o format \o <<",">> \o Itoa(width) \o <<",">> \o Itoa(height)
        \o <<",">> \o Itoa(mip) \o <<")">> \o fn \o <<"(">> \o Join(args) \o <<")">>

NewProcedural(format, width, height, mip, fn, args) ==
    ParseTextureRef(buildProceduralRaw(format, width, height, mip, fn,
                                       formatProceduralArgs(args)))

Float64(v) == [type |-> "float64", v |-> v]
String(v) == [type |-> "string", v |-> v]

NewProceduralColor(format, width, height, mip, r, g, b, a, tag) ==
    NewProcedural(format, width, height, mip, <<"c","o","l","o","r">>,
                  <<Float64(r), Float64(g), Float64(b), Float64(a)>>
                      \o (IF tag # <<>> THEN <<String(tag)>> ELSE <<>>))

NewProceduralFresnel(format, width, height, mip, a, b) ==
    NewProcedural(format, width, height, mip, <<"f","r","e","s","n","e","l">>,
                  <<Float64(a), Float64(b)>>)

NewProceduralFresnelGlass(format, width, height, mip, a, b, hasB) ==
    NewProcedural(format, width, height, mip,
                  <<"f","r","e","s","n","e","l","G","l","a","s","s">>,
                  IF hasB THEN <<Float64(a), Float64(b)>> ELSE <<Float64(a)>>)

NewProceduralIrradiance(format, width, height, mip, value) ==
    NewProcedural(format, width, height, mip,
                  <<"i","r","r","a","d","i","a","n","c","e">>, <<Float64(value)>>)

NewUVTransform == [Aside |-> <<>>, Up |-> <<>>, Dir |-> <<>>, Pos |-> <<>>]

NewStage(name) ==
    [Name |-> name, Texture |-> NoTexture, UVSource |-> <<>>, TexGen |-> <<>>,
     UVTransform |-> <<>>, extras |-> <<>>]

NewTexGen(name, base) ==
    [Name |-> name, Base |-> base, UVSource |-> <<>>, UVTransform |-> <<>>,
     extras |-> <<>>]

NewMaterial ==
    [Ambient |-> <<>>, Diffuse |-> <<>>, ForcedDiffuse |-> <<>>, Emmisive |-> <<>>,
     Specular |-> <<>>, SpecularPower |-> <<>>, PixelShaderID |-> <<>>,
     VertexShaderID |-> <<>>, Stages |-> <<>>, TexGens |-> <<>>, extras |-> <<>>]

(***************************************************************************)
(* Generic nodes                                                           *)
(***************************************************************************)
parseAssign(p) ==
    With([h \in {parseAssignHead(p)} |->
    With([v \in {parseValue(h.p)} |->
    With([s \in {expect(v.p, "tokSemicolon")} |->
    IF h.err # NoErr THEN Ret(h.p, h.err, <<>>)
    ELSE IF v.err # NoErr THEN Ret(v.p, v.err, <<>>)
    ELSE IF s.err # NoErr THEN Ret(s.p, s.err, <<>>)
    ELSE Ret(s.p, NoErr, <<assignNode(h.v.name, h.v.isArray, v.v)>>)])])])

RECURSIVE parseNode(_), parseClass(_), parseClassBody(_, _, _), nodesFrom(_, _)

\* the loop of parseClassBody and of parseClass: nodes up to the closing brace
nodesFrom(p, body) ==
    With([k \in {peek(p)} |->
    IF k.err # NoErr THEN Ret(k.p, k.err, <<>>)
    ELSE IF k.tok.Type = "tokRBrace" THEN Ret(next(k.p).p, NoErr, body)
    ELSE With([n \in {parseNode(k.p)} |->
         IF n.err # NoErr THEN Ret(n.p, n.err, <<>>)
         ELSE nodesFrom(n.p, body \o n.v)])])

\* v is <<classNode>>, or <<>> beside an error
parseClassBody(p, name, base) ==
    With([b \in {expect(p, "tokLBrace")} |->
    With([n \in {nodesFrom(b.p, <<>>)} |->
    With([s \in {expect(n.p, "tokSemicolon")} |->
    IF b.err # NoErr THEN Ret(b.p, b.err, <<>>)
    ELSE IF n.err # NoErr THEN Ret(n.p, n.err, <<>>)
    ELSE IF s.err # NoErr THEN Ret(s.p, s.err, <<>>)
    ELSE Ret(s.p, NoErr, <<classNode(name, base, n.v)>>)])])])

parseClass(p) ==
    With([h \in {parseClassHead(p)} |->
    IF h.err # NoErr THEN Ret(h.p, h.err, <<>>)
    ELSE parseClassBody(h.p, h.v.name, h.v.base)])

parseNode(p) ==
    With([k \in {peek(p)} |->
    IF k.err # NoErr THEN Ret(k.p, k.err, <<>>)
    ELSE IF k.tok.Type = "tokClass" THEN parseClass(k.p)
    ELSE parseAssign(k.p)])

(***************************************************************************)
(* uvTransform, Stage, TexGen                                              *)
(***************************************************************************)
\* a loop of parseUVTransformBody that stores an entry of any other name as pos
RECURSIVE uvEntriesKeepOther(_, _)
uvEntriesKeepOther(p, uv) ==
    With([k \in {peek(p)} |->
    IF k.err # NoErr THEN Ret(k.p, k.err, uv)
    ELSE IF k.tok.Type = "tokRBrace" THEN Ret(next(k.p).p, NoErr, uv)
    ELSE
    With([h \in {parseAssignHead(k.p)} |->
    With([a \in {parseNumberArray(h.p)} |->
    With([ci \in {~p.opt.DisableCaseInsensitive} |->
    With([nm \in {h.v.name} |->
    With([u2 \in {IF matchKey(nm, <<"a","s","i","d","e">>, ci) THEN [uv EXCEPT !.Aside = a.v]
              ELSE IF matchKey(nm, <<"u","p">>, ci) THEN [uv EXCEPT !.Up = a.v]
              ELSE IF matchKey(nm, <<"d","i","r">>, ci) THEN [uv EXCEPT !.Dir = a.v]
              ELSE IF matchKey(nm, <<"p","o","s">>, ci) THEN [uv EXCEPT !.Pos = a.v]
              ELSE [uv EXCEPT !.Pos = a.v]} |->
    With([s \in {expectSemicolon(a.p)} |->
    IF h.err # NoErr THEN Ret(h.p, h.err, uv)
    ELSE IF a.err # NoErr THEN Ret(a.p, a.err, uv)
    ELSE IF s.err # NoErr THEN Ret(s.p, s.err, u2)
    ELSE uvEntriesKeepOther(s.p, u2)])])])])])])])

\* the loop of parseUVTransformBody
RECURSIVE uvEntriesFrom(_, _)
uvEntriesFrom(p, uv) ==
    With([k \in {peek(p)} |->
    IF k.err # NoErr THEN Ret(k.p, k.err, uv)
    ELSE IF k.tok.Type = "tokRBrace" THEN Ret(next(k.p).p, NoErr, uv)
    ELSE
    With([h \in {parseAssignHead(k.p)} |->
    With([a \in {parseNumberArray(h.p)} |->
    With([ci \in {~p.opt.DisableCaseInsensitive} |->
    With([nm \in {h.v.name} |->
    With([u2 \in {IF matchKey(nm, <<"a","s","i","d","e">>, ci) THEN [uv EXCEPT !.Aside = a.v]
              ELSE IF matchKey(nm, <<"u","p">>, ci) THEN [uv EXCEPT !.Up = a.v]
              ELSE IF matchKey(nm, <<"d","i","r">>, ci) THEN [uv EXCEPT !.Dir = a.v]
              ELSE IF matchKey(nm, <<"p","o","s">>, ci) THEN [uv EXCEPT !.Pos = a.v]
              ELSE uv} |->
    With([s \in {expectSemicolon(a.p)} |->
    IF h.err # NoErr THEN Ret(h.p, h.err, uv)
    ELSE IF a.err # NoErr THEN Ret(a.p, a.err, uv)
    ELSE IF s.err # NoErr THEN Ret(s.p, s.err, u2)
    ELSE uvEntriesFrom(s.p, u2)])])])])])])])

\* v is the pointer: <<uv>>, or <<>> (nil) beside an error
parseUVTransformBody(p) ==
    With([b \in {expect(p, "tokLBrace")} |->
    With([e \in {uvEntriesFrom(b.p, NewUVTransform)} |->
    With([s \in {expectSemicolon(e.p)} |->
    IF b.err # NoErr THEN Ret(b.p, b.err, <<>>)
    ELSE IF e.err # NoErr THEN Ret(e.p, e.err, <<>>)
    ELSE IF s.err # NoErr THEN Ret(s.p, s.err, <<>>)
    ELSE Ret(s.p, NoErr, <<e.v>>)])])])

\* the generic tail of an assignment whose name is no known key of its scope:
\* v is <<assignNode>>, or <<>> beside an error
parseExtraAssign(p, h) ==
    With([v \in {parseValue(p)} |->
    With([s \in {expectSemicolon(v.p)} |->
    IF v.err # NoErr THEN Ret(v.p, v.err, <<>>)
    ELSE IF s.err # NoErr THEN Ret(s.p, s.err, <<>>)
    ELSE Ret(s.p, NoErr, <<assignNode(h.name, h.isArray, v.v)>>)])])

\* a parseStageAssign without the uvsource case: the assignment is kept as
\* an extra of the stage
parseStageAssignNoUV(p, st) ==
    With([h \in {parseAssignHead(p)} |->
    With([ci \in {~p.opt.DisableCaseInsensitive} |->
    With([nm \in {h.v.name} |->
    IF h.err # NoErr THEN Ret(h.p, h.err, st)
    ELSE IF ~h.v.isArray /\ matchKey(nm, <<"t","e","x","t","u","r","e">>, ci)
         THEN With([s \in {parseStringValue(h.p)} |->
              IF s.err # NoErr THEN Ret(s.p, s.err, st)
              ELSE With([e \in {expectSemicolon(s.p)} |->
                   Ret(e.p, e.err, [st EXCEPT !.Texture = ParseTextureRef(s.v)])])])
    ELSE IF ~h.v.isArray /\ matchKey(nm, <<"t","e","x","g","e","n">>, ci)
         THEN With([s \in {parseStringOrNumberValue(h.p, ~p.opt.DisableRelaxedNumbers)} |->
              IF s.err # NoErr THEN Ret(s.p, s.err, st)
              ELSE With([e \in {expectSemicolon(s.p)} |->
                   Ret(e.p, e.err, [st EXCEPT !.TexGen = s.v])])])
    ELSE With([x \in {parseExtraAssign(h.p, h.v)} |->
         Ret(x.p, x.err, [st EXCEPT !.extras = @ \o x.v])])])])])

parseStageAssign(p, st) ==
    With([h \in {parseAssignHead(p)} |->
    With([ci \in {~p.opt.DisableCaseInsensitive} |->
    With([nm \in {h.v.name} |->
    IF h.err # NoErr THEN Ret(h.p, h.err, st)
    ELSE IF ~h.v.isArray /\ matchKey(nm, <<"t","e","x","t","u","r","e">>, ci)
         THEN With([s \in {parseStringValue(h.p)} |->
              IF s.err # NoErr THEN Ret(s.p, s.err, st)
              ELSE With([e \in {expectSemicolon(s.p)} |->
                   Ret(e.p, e.err, [st EXCEPT !.Texture = ParseTextureRef(s.v)])])])
    ELSE IF ~h.v.isArray /\ matchKey(nm, <<"u","v","s","o","u","r","c","e">>, ci)
         THEN With([s \in {parseStringValue(h.p)} |->
              IF s.err # NoErr THEN Ret(s.p, s.err, st)
              ELSE With([e \in {expectSemicolon(s.p)} |->
                   Ret(e.p, e.err, [st EXCEPT !.UVSource = s.v])])])
    ELSE IF ~h.v.isArray /\ matchKey(nm, <<"t","e","x","g","e","n">>, ci)
         THEN With([s \in {parseStringOrNumberValue(h.p, ~p.opt.DisableRelaxedNumbers)} |->
              IF s.err # NoErr THEN Ret(s.p, s.err, st)
              ELSE With([e \in {expectSemicolon(s.p)} |->
                   Ret(e.p, e.err, [st EXCEPT !.TexGen = s.v])])])
    ELSE With([x \in {parseExtraAssign(h.p, h.v)} |->
         Ret(x.p, x.err, [st EXCEPT !.extras = @ \o x.v])])])])])

parseTexGenAssign(p, tg) ==
    With([h \in {parseAssignHead(p)} |->
    With([ci \in {~p.opt.DisableCaseInsensitive} |->
    IF h.err # NoErr THEN Ret(h.p, h.err, tg)
    ELSE IF ~h.v.isArray /\ matchKey(h.v.name, <<"u","v","s","o","u","r","c","e">>, ci)
         THEN With([s \in {parseStringValue(h.p)} |->
              IF s.err # NoErr THEN Ret(s.p, s.err, tg)
              ELSE With([e \in {expectSemicolon(s.p)} |->
                   Ret(e.p, e.err, [tg EXCEPT !.UVSource = s.v])])])
    ELSE With([x \in {parseExtraAssign(h.p, h.v)} |->
         Ret(x.p, x.err, [tg EXCEPT !.extras = @ \o x.v])])])])

\* parseStageClass and parseTexGenClass: a class inside a Stage or a TexGen;
\* both records have the fields UVTransform and extras
parseStageClass(p, st) ==
    With([h \in {parseClassHead(p)} |->
    IF h.err # NoErr THEN Ret(h.p, h.err, st)
    ELSE IF equalFold(h.v.name, <<"u","v","T","r","a","n","s","f","o","r","m">>, p.opt) /\ h.v.base = <<>>
         THEN With([u \in {parseUVTransformBody(h.p)} |->
              IF u.err # NoErr THEN Ret(u.p, u.err, st)
              ELSE Ret(u.p, NoErr, [st EXCEPT !.UVTransform = u.v])])
    ELSE With([c \in {parseClassBody(h.p, h.v.name, h.v.base)} |->
         IF c.err # NoErr THEN Ret(c.p, c.err, st)
         ELSE Ret(c.p, NoErr, [st EXCEPT !.extras = @ \o c.v])])])

parseTexGenClass(p, tg) ==
    With([h \in {parseClassHead(p)} |->
    IF h.err # NoErr THEN Ret(h.p, h.err, tg)
    ELSE IF equalFold(h.v.name, <<"u","v","T","r","a","n","s","f","o","r","m">>, p.opt) /\ h.v.base = <<>>
         THEN With([u \in {parseUVTransformBody(h.p)} |->
              IF u.err # NoErr THEN Ret(u.p, u.err, tg)
              ELSE Ret(u.p, NoErr, [tg EXCEPT !.UVTransform = u.v])])
    ELSE With([c \in {parseClassBody(h.p, h.v.name, h.v.base)} |->
         IF c.err # NoErr THEN Ret(c.p, c.err, tg)
         ELSE Ret(c.p, NoErr, [tg EXCEPT !.extras = @ \o c.v])])])

\* the loop of parseStageBody
RECURSIVE stageItemsFrom(_, _)
stageItemsFrom(p, st) ==
    With([k \in {peek(p)} |->
    IF k.err # NoErr THEN Ret(k.p, k.err, st)
    ELSE IF k.tok.Type = "tokRBrace" THEN Ret(next(k.p).p, NoErr, st)
    ELSE With([r \in {IF k.tok.Type = "tokClass" THEN parseStageClass(k.p, st)
                  ELSE parseStageAssign(k.p, st)} |->
         IF r.err # NoErr THEN r ELSE stageItemsFrom(r.p, r.v)])])

\* v is <<Stage>>, or <<>> beside an error (the code returns Stage{}, unused)
parseStageBody(p, name) ==
    With([b \in {expect(p, "tokLBrace")} |->
    With([e \in {stageItemsFrom(b.p, NewStage(name))} |->
    With([s \in {expect(e.p, "tokSemicolon")} |->
    IF b.err # NoErr THEN Ret(b.p, b.err, <<>>)
    ELSE IF e.err # NoErr THEN Ret(e.p, e.err, <<>>)
    ELSE IF s.err # NoErr THEN Ret(s.p, s.err, <<>>)
    ELSE Ret(s.p, NoErr, <<e.v>>)])])])

\* the loop of parseTexGenBody
RECURSIVE texGenItemsFrom(_, _)
texGenItemsFrom(p, tg) ==
    With([k \in {peek(p)} |->
    IF k.err # NoErr THEN Ret(k.p, k.err, tg)
    ELSE IF k.tok.Type = "tokRBrace" THEN Ret(next(k.p).p, NoErr, tg)
    ELSE With([r \in {IF k.tok.Type = "tokClass" THEN parseTexGenClass(k.p, tg)
                  ELSE parseTexGenAssign(k.p, tg)} |->
         IF r.err # NoErr THEN r ELSE texGenItemsFrom(r.p, r.v)])])

parseTexGenBody(p, name, base) ==
    With([b \in {expect(p, "tokLBrace")} |->
    With([e \in {texGenItemsFrom(b.p, NewTexGen(name, base))} |->
    With([s \in {expect(e.p, "tokSemicolon")} |->
    IF b.err # NoErr THEN Ret(b.p, b.err, <<>>)
    ELSE IF e.err # NoErr THEN Ret(e.p, e.err, <<>>)
    ELSE IF s.err # NoErr THEN Ret(s.p, s.err, <<>>)
    ELSE Ret(s.p, NoErr, <<e.v>>)])])])

(***************************************************************************)
(* Top level                                                               *)
(***************************************************************************)
\* parseTopClass without the test for a base class
parseTopClassAnyBase(p, m) ==
    With([h \in {parseClassHead(p)} |->
    IF h.err # NoErr THEN Ret(h.p, h.err, m)
    ELSE IF isStageName(h.v.name, p.opt)
         THEN With([s \in {parseStageBody(h.p, h.v.name)} |->
              Ret(s.p, s.err, [m EXCEPT !.Stages = @ \o s.v])])
    ELSE IF isTexGenName(h.v.name, p.opt)
         THEN With([t \in {parseTexGenBody(h.p, h.v.name, h.v.base)} |->
              Ret(t.p, t.err, [m EXCEPT !.TexGens = @ \o t.v])])
    ELSE With([c \in {parseClassBody(h.p, h.v.name, h.v.base)} |->
         Ret(c.p, c.err, [m EXCEPT !.extras = @ \o c.v])])])

parseTopClass(p, m) ==
    With([h \in {parseClassHead(p)} |->
    IF h.err # NoErr THEN Ret(h.p, h.err, m)
    ELSE IF isStageName(h.v.name, p.opt) /\ h.v.base = <<>>
         THEN With([s \in {parseStageBody(h.p, h.v.name)} |->
              Ret(s.p, s.err, [m EXCEPT !.Stages = @ \o s.v])])
    ELSE IF isTexGenName(h.v.name, p.opt)
         THEN With([t \in {parseTexGenBody(h.p, h.v.name, h.v.base)} |->
              Ret(t.p, t.err, [m EXCEPT !.TexGens = @ \o t.v])])
    ELSE With([c \in {parseClassBody(h.p, h.v.name, h.v.base)} |->
         Ret(c.p, c.err, [m EXCEPT !.extras = @ \o c.v])])])

parseTopAssign(p, m) ==
    With([h \in {parseAssignHead(p)} |->
    With([ci \in {~p.opt.DisableCaseInsensitive} |->
    With([nm \in {h.v.name} |->
    IF h.err # NoErr THEN Ret(h.p, h.err, m)
    ELSE IF h.v.isArray /\ \E key \in {<<"a","m","b","i","e","n","t">>, <<"d","i","f","f","u","s","e">>,
                                       <<"f","o","r","c","e","d","d","i","f","f","u","s","e">>, <<"e","m","m","i","s","i","v","e">>,
                                       <<"s","p","e","c","u","l","a","r">>} : matchKey(nm, key, ci)
         THEN With([a \in {parseNumberArray(h.p)} |->
              With([m2 \in {IF matchKey(nm, <<"a","m","b","i","e","n","t">>, ci)
                             THEN [m EXCEPT !.Ambient = a.v]
                        ELSE IF matchKey(nm, <<"d","i","f","f","u","s","e">>, ci)
                             THEN [m EXCEPT !.Diffuse = a.v]
                        ELSE IF matchKey(nm, <<"f","o","r","c","e","d","d","i","f","f","u","s","e">>, ci)
                             THEN [m EXCEPT !.ForcedDiffuse = a.v]
                        ELSE IF matchKey(nm, <<"e","m","m","i","s","i","v","e">>, ci)
                             THEN [m EXCEPT !.Emmisive = a.v]
                        ELSE [m EXCEPT !.Specular = a.v]} |->
              IF a.err # NoErr THEN Ret(a.p, a.err, m)
              ELSE With([e \in {expectSemicolon(a.p)} |->  Ret(e.p, e.err, m2)])])])
    ELSE IF ~h.v.isArray /\ matchKey(nm, <<"s","p","e","c","u","l","a","r","p","o","w","e","r">>, ci)
         THEN With([n \in {parseNumberValue(h.p)} |->
              IF n.err # NoErr THEN Ret(n.p, n.err, m)
              ELSE With([e \in {expectSemicolon(n.p)} |->
                   Ret(e.p, e.err, [m EXCEPT !.SpecularPower = <<n.v>>])])])
    ELSE IF ~h.v.isArray /\ matchKey(nm, <<"p","i","x","e","l","s","h","a","d","e","r","i","d">>, ci)
         THEN With([s \in {parseStringValue(h.p)} |->
              IF s.err # NoErr THEN Ret(s.p, s.err, m)
              ELSE With([e \in {expectSemicolon(s.p)} |->
                   Ret(e.p, e.err, [m EXCEPT !.PixelShaderID = s.v])])])
    ELSE IF ~h.v.isArray /\ matchKey(nm, <<"v","e","r","t","e","x","s","h","a","d","e","r","i","d">>, ci)
         THEN With([s \in {parseStringValue(h.p)} |->
              IF s.err # NoErr THEN Ret(s.p, s.err, m)
              ELSE With([e \in {expectSemicolon(s.p)} |->
                   Ret(e.p, e.err, [m EXCEPT !.VertexShaderID = s.v])])])
    ELSE With([x \in {parseExtraAssign(h.p, h.v)} |->
         Ret(x.p, x.err, [m EXCEPT !.extras = @ \o x.v])])])])])

\* a parseMaterial that hands out the partial document beside the error
KeepOnError(r) == Ret(r.p, r.err, <<r.v>>)

\* the value parseMaterial returns beside an error: a nil *Material
NilOnError(r) == Ret(r.p, r.err, <<>>)

\* the loop of parseMaterial; v is the pointer it returns, <<m>> or nil
RECURSIVE materialFrom(_, _)
materialFrom(p, m) ==
    With([k \in {peek(p)} |->
    IF k.err # NoErr THEN NilOnError(Ret(k.p, k.err, m))
    ELSE IF k.tok.Type = "tokEOF" THEN Ret(k.p, NoErr, <<m>>)
    ELSE With([r \in {IF k.tok.Type = "tokClass" THEN parseTopClass(k.p, m)
                  ELSE parseTopAssign(k.p, m)} |->
         IF r.err # NoErr THEN NilOnError(r) ELSE materialFrom(r.p, r.v)])])

parseMaterial(p) == materialFrom(p, NewMaterial)

\* bufio.Reader.Peek(4096) in isBinaryRVMAT
PeekSize == 4096

\* a check that peeks one byte less than isBinaryRVMAT does
isBinaryShort(data) ==
    \E k \in 1..Len(data.body) : data.body[k] = NUL /\ data.pad + k < PeekSize

\* An input is data.pad spaces followed by the characters data.body.
isBinaryRVMAT(data) ==
    \E k \in 1..Len(data.body) : data.body[k] = NUL /\ data.pad + k <= PeekSize

\* the text the lexer works on: leading spaces are skipped by the first
\* skipWhitespace, and a byte-order mark counts only as the very first byte
LexText(data) == IF data.pad > 0 THEN <<" ">> \o data.body ELSE data.body

\* Decode (and Parse): [m, err] as returned, with lexed, the number of
\* lexer.next calls made, and lexerr, the first error the lexer returned
Decode(data, opt) ==
    IF isBinaryRVMAT(data)
    THEN [m |-> <<>>, err |-> ErrBinaryRVMAT, lexed |-> 0, lexerr |-> NoErr]
    ELSE With([r \in {parseMaterial(newParser(LexText(data), opt))} |->
         [m |-> r.v, err |-> r.err, lexed |-> r.p.i - 1, lexerr |-> r.p.lexerr]])

(***************************************************************************)
(* Writer.  w.buf is what has been written, w.level the nesting level.     *)
(* w.err is the error of the last write: Format writes to a bytes.Buffer,   *)
(* whose writes do not fail, so it stays nil, and every                    *)
(* "if err != nil { return err }" of the code is Failed(w) here.  The      *)
(* indentation cache is a memo of Repeat and is left out.                  *)
(***************************************************************************)
DefaultIndent == <<" ", " ", " ", " ">>

\* FormatOptions.normalize: the indentation in use
normalizeIndent(indent) == IF indent = <<>> THEN DefaultIndent ELSE indent

newWriter(indent) == [buf |-> <<>>, level |-> 0, indent |-> indent, err |-> NoErr]

Failed(w) == w.err # NoErr

writeString(w, s) == [w EXCEPT !.buf = @ \o s]

RECURSIVE Repeat(_, _)
Repeat(s, n) == IF n <= 0 THEN <<>> ELSE s \o Repeat(s, n - 1)

indentFor(w, level) == IF level <= 0 THEN <<>> ELSE Repeat(w.indent, level)

writeIndent(w) == IF w.level <= 0 THEN w ELSE writeString(w, indentFor(w, w.level))

writeNumber(w, v) == writeString(w, FormatFloat(v))

writeQuoted(w, s) == writeString(writeString(writeString(w, <<Q>>), s), <<Q>>)

\* the loop of writeFloatArray from element k on
RECURSIVE floatsFrom(_, _, _)
floatsFrom(w, vals, k) ==
    IF k > Len(vals) THEN w
    ELSE With([w1 \in {writeNumber(IF k > 1 THEN writeString(w, <<",", " ">>) ELSE w, vals[k])} |->
         IF Failed(w1) THEN w1 ELSE floatsFrom(w1, vals, k + 1)])

writeFloatArray(w, vals) ==
    writeString(floatsFrom(writeString(w, <<"{">>), vals, 1), <<"}">>)

RECURSIVE writeValue(_, _), valuesFrom(_, _, _)
\* the loop of writeArray from element k on
valuesFrom(w, vals, k) ==
    IF k > Len(vals) THEN w
    ELSE With([w1 \in {writeValue(IF k > 1 THEN writeString(w, <<",", " ">>) ELSE w, vals[k])} |->
         IF Failed(w1) THEN w1 ELSE valuesFrom(w1, vals, k + 1)])

writeValue(w, v) ==
    CASE v.Kind = "valueNumber" -> writeNumber(w, v.Num)
      [] v.Kind = "valueString" -> writeQuoted(w, v.Str)
      [] v.Kind = "valueIdent"  -> writeString(w, v.Str)
      [] v.Kind = "valueArray"  -> writeString(valuesFrom(writeString(w, <<"{">>), v.Array, 1),
                                               <<"}">>)
      [] OTHER -> w

writeArray(w, vals) == writeValue(w, ArrayValue(vals))

writeAssign(w, name, val, isArray) ==
    With([w1 \in {writeString(writeIndent(w), name)} |->
    With([w2 \in {writeString(w1, IF isArray THEN <<"[", "]", "=">> ELSE <<"=">>)} |->
    With([w3 \in {writeValue(w2, val)} |->
    IF Failed(w1) THEN w1 ELSE IF Failed(w2) THEN w2 ELSE IF Failed(w3) THEN w3
    ELSE writeString(w3, <<";", NL>>)])])])

\* "class Name" or "class Name : Base", then a newline
writeClassLine(w, name, base) ==
    With([w1 \in {writeString(writeString(w, <<"c","l","a","s","s"," ">>), name)} |->
    With([w2 \in {IF base # <<>> THEN writeString(writeString(w1, <<" ", ":", " ">>), base)
              ELSE w1} |->
    writeString(w2, <<NL>>)])])

RECURSIVE writeNode(_, _), writeClass(_, _), writeNodes(_, _, _)
\* "for _, n := range body { w.writeNode(n) }" from element k on
writeNodes(w, body, k) ==
    IF k > Len(body) THEN w
    ELSE With([w1 \in {writeNode(w, body[k])} |->
         IF Failed(w1) THEN w1 ELSE writeNodes(w1, body, k + 1)])

writeClass(w, c) ==
    With([w1 \in {writeClassLine(writeIndent(w), c.Name, c.Base)} |->
    With([w2 \in {writeString(writeIndent(w1), <<"{", NL>>)} |->
    With([w3 \in {writeNodes([w2 EXCEPT !.level = @ + 1], c.Body, 1)} |->
    With([w4 \in {[w3 EXCEPT !.level = @ - 1]} |->
    IF Failed(w1) THEN w1 ELSE IF Failed(w2) THEN w2 ELSE IF Failed(w3) THEN w3
    ELSE writeString(writeIndent(w4), <<"}", ";", NL>>)])])])])

writeNode(w, n) ==
    IF n.type = "assignNode" THEN writeAssign(w, n.Name, n.Value, n.IsArray)
    ELSE IF n.type = "classNode" THEN writeClass(w, n)
    ELSE w

\* one entry of writeUVTransform: "name[]={...};" when vals is not empty
writeUVEntry(w, name, vals) ==
    IF Len(vals) > 0
    THEN writeString(writeFloatArray(writeString(writeString(writeIndent(w), name),
                                                 <<"[", "]", "=">>), vals), <<";", NL>>)
    ELSE w

\* a writeUVTransform that does not lower the level when the block closes
writeUVTransformDeep(w, uv) ==
    With([w1 \in {writeString(writeIndent(w), <<"c","l","a","s","s"," ","u","v","T","r","a","n","s","f","o","r","m">> \o <<NL>>)} |->
    With([w2 \in {writeString(writeIndent(w1), <<"{", NL>>)} |->
    With([w3 \in {[w2 EXCEPT !.level = @ + 1]} |->
    With([w4 \in {writeUVEntry(w3, <<"a","s","i","d","e">>, uv.Aside)} |->
    With([w5 \in {writeUVEntry(w4, <<"u","p">>, uv.Up)} |->
    With([w6 \in {writeUVEntry(w5, <<"d","i","r">>, uv.Dir)} |->
    With([w7 \in {writeUVEntry(w6, <<"p","o","s">>, uv.Pos)} |->
    With([w8 \in {w7} |->
    IF Failed(w1) THEN w1 ELSE IF Failed(w2) THEN w2 ELSE IF Failed(w4) THEN w4
    ELSE IF Failed(w5) THEN w5 ELSE IF Failed(w6) THEN w6 ELSE IF Failed(w7) THEN w7
    ELSE writeString(writeIndent(w8), <<"}", ";", NL>>)])])])])])])])])

writeUVTransform(w, uv) ==
    With([w1 \in {writeString(writeIndent(w), <<"c","l","a","s","s"," ","u","v","T","r","a","n","s","f","o","r","m">> \o <<NL>>)} |->
    With([w2 \in {writeString(writeIndent(w1), <<"{", NL>>)} |->
    With([w3 \in {[w2 EXCEPT !.level = @ + 1]} |->
    With([w4 \in {writeUVEntry(w3, <<"a","s","i","d","e">>, uv.Aside)} |->
    With([w5 \in {writeUVEntry(w4, <<"u","p">>, uv.Up)} |->
    With([w6 \in {writeUVEntry(w5, <<"d","i","r">>, uv.Dir)} |->
    With([w7 \in {writeUVEntry(w6, <<"p","o","s">>, uv.Pos)} |->
    With([w8 \in {[w7 EXCEPT !.level = @ - 1]} |->
    IF Failed(w1) THEN w1 ELSE IF Failed(w2) THEN w2 ELSE IF Failed(w4) THEN w4
    ELSE IF Failed(w5) THEN w5 ELSE IF Failed(w6) THEN w6 ELSE IF Failed(w7) THEN w7
    ELSE writeString(writeIndent(w8), <<"}", ";", NL>>)])])])])])])])])

\* a writeStage that writes uvSource and uvTransform whatever TexGen is
writeStageAlways(w, s) ==
    With([name \in {IF s.Name = <<>> THEN <<"S","t","a","g","e">> ELSE s.Name} |->
    With([w1 \in {writeString(writeString(writeString(w, <<"c","l","a","s","s"," ">>), name), <<NL, "{", NL>>)} |->
    With([w2 \in {[w1 EXCEPT !.level = @ + 1]} |->
    With([w3 \in {IF s.Texture.Raw # <<>>
              THEN writeAssign(w2, <<"t","e","x","t","u","r","e">>, StringValue(s.Texture.Raw), FALSE) ELSE w2} |->
    With([w4 \in {IF s.UVSource # <<>>
              THEN writeAssign(w3, <<"u","v","S","o","u","r","c","e">>, StringValue(s.UVSource), FALSE) ELSE w3} |->
    With([w5 \in {IF s.TexGen # <<>>
              THEN writeAssign(w4, <<"t","e","x","G","e","n">>, StringValue(s.TexGen), FALSE) ELSE w4} |->
    With([w6 \in {IF s.UVTransform # <<>>
              THEN writeUVTransform(w5, s.UVTransform[1]) ELSE w5} |->
    With([w7 \in {writeNodes(w6, s.extras, 1)} |->
    With([w8 \in {[w7 EXCEPT !.level = @ - 1]} |->
    writeString(w8, <<"}", ";", NL>>)])])])])])])])])])

writeStage(w, s) ==
    With([name \in {IF s.Name = <<>> THEN <<"S","t","a","g","e">> ELSE s.Name} |->
    With([w1 \in {writeString(writeString(writeString(w, <<"c","l","a","s","s"," ">>), name), <<NL, "{", NL>>)} |->
    With([w2 \in {[w1 EXCEPT !.level = @ + 1]} |->
    With([w3 \in {IF s.Texture.Raw # <<>>
              THEN writeAssign(w2, <<"t","e","x","t","u","r","e">>, StringValue(s.Texture.Raw), FALSE) ELSE w2} |->
    With([w4 \in {IF s.UVSource # <<>> /\ s.TexGen = <<>>
              THEN writeAssign(w3, <<"u","v","S","o","u","r","c","e">>, StringValue(s.UVSource), FALSE) ELSE w3} |->
    With([w5 \in {IF s.TexGen # <<>>
              THEN writeAssign(w4, <<"t","e","x","G","e","n">>, StringValue(s.TexGen), FALSE) ELSE w4} |->
    With([w6 \in {IF s.UVTransform # <<>> /\ s.TexGen = <<>>
              THEN writeUVTransform(w5, s.UVTransform[1]) ELSE w5} |->
    With([w7 \in {writeNodes(w6, s.extras, 1)} |->
    With([w8 \in {[w7 EXCEPT !.level = @ - 1]} |->
    IF Failed(w1) THEN w1 ELSE IF Failed(w3) THEN w3 ELSE IF Failed(w4) THEN w4
    ELSE IF Failed(w5) THEN w5 ELSE IF Failed(w6) THEN w6 ELSE IF Failed(w7) THEN w7
    ELSE writeString(w8, <<"}", ";", NL>>)])])])])])])])])])

writeTexGen(w, t) ==
    With([name \in {IF t.Name = <<>> THEN <<"T","e","x","G","e","n">> ELSE t.Name} |->
    With([w1 \in {writeString(writeClassLine(w, name, t.Base), <<"{", NL>>)} |->
    With([w2 \in {[w1 EXCEPT !.level = @ + 1]} |->
    With([w3 \in {IF t.UVSource # <<>>
              THEN writeAssign(w2, <<"u","v","S","o","u","r","c","e">>, StringValue(t.UVSource), FALSE) ELSE w2} |->
    With([w4 \in {IF t.UVTransform # <<>> THEN writeUVTransform(w3, t.UVTransform[1]) ELSE w3} |->
    With([w5 \in {writeNodes(w4, t.extras, 1)} |->
    With([w6 \in {[w5 EXCEPT !.level = @ - 1]} |->
    IF Failed(w1) THEN w1 ELSE IF Failed(w3) THEN w3 ELSE IF Failed(w4) THEN w4
    ELSE IF Failed(w5) THEN w5
    ELSE writeString(w6, <<"}", ";", NL>>)])])])])])])])

\* the closure writeArray of writeMaterial: a top-level colour array
writeTopArray(w, name, vals) ==
    IF Len(vals) = 0 THEN w
    ELSE writeString(writeFloatArray(writeString(writeString(w, name), <<"[", "]", "=">>),
                                     vals), <<";", NL>>)

\* a top-level shader id: written when not empty
writeTopString(w, name, s) ==
    IF s = <<>> THEN w
    ELSE writeString(writeQuoted(writeString(w, name \o <<"=">>), s), <<";", NL>>)

RECURSIVE writeTexGens(_, _, _), writeStages(_, _, _)
writeTexGens(w, tgs, k) ==
    IF k > Len(tgs) THEN w
    ELSE With([w1 \in {writeTexGen(w, tgs[k])} |->
         IF Failed(w1) THEN w1 ELSE writeTexGens(w1, tgs, k + 1)])

writeStages(w, sts, k) ==
    IF k > Len(sts) THEN w
    ELSE With([w1 \in {writeStage(w, sts[k])} |->
         IF Failed(w1) THEN w1 ELSE writeStages(w1, sts, k + 1)])

\* the scalar part of writeMaterial: colours, specularPower, shader ids
writeScalars(w, m) ==
    With([w1 \in {writeTopArray(w, <<"a","m","b","i","e","n","t">>, m.Ambient)} |->
    With([w2 \in {writeTopArray(w1, <<"d","i","f","f","u","s","e">>, m.Diffuse)} |->
    With([w3 \in {writeTopArray(w2, <<"f","o","r","c","e","d","D","i","f","f","u","s","e">>, m.ForcedDiffuse)} |->
    With([w4 \in {writeTopArray(w3, <<"e","m","m","i","s","i","v","e">>, m.Emmisive)} |->
    With([w5 \in {writeTopArray(w4, <<"s","p","e","c","u","l","a","r">>, m.Specular)} |->
    With([w6 \in {IF m.SpecularPower # <<>>
              THEN writeString(writeNumber(writeString(w5, <<"s","p","e","c","u","l","a","r","P","o","w","e","r","=">>),
                                           m.SpecularPower[1]), <<";", NL>>)
              ELSE w5} |->
    With([w7 \in {writeTopString(w6, <<"P","i","x","e","l","S","h","a","d","e","r","I","D">>, m.PixelShaderID)} |->
    IF Failed(w1) THEN w1 ELSE IF Failed(w2) THEN w2 ELSE IF Failed(w3) THEN w3
    ELSE IF Failed(w4) THEN w4 ELSE IF Failed(w5) THEN w5 ELSE IF Failed(w6) THEN w6
    ELSE IF Failed(w7) THEN w7
    ELSE writeTopString(w7, <<"V","e","r","t","e","x","S","h","a","d","e","r","I","D">>, m.VertexShaderID)])])])])])])])

\* a writeMaterial that emits the stages before the texgens
writeMaterialStagesFirst(w, m) ==
    writeNodes(writeTexGens(writeStages(writeScalars(w, m), m.Stages, 1), m.TexGens, 1),
               m.extras, 1)

writeMaterial(w, m) ==
    With([w1 \in {writeScalars(w, m)} |->
    With([w2 \in {writeTexGens(w1, m.TexGens, 1)} |->
    With([w3 \in {writeStages(w2, m.Stages, 1)} |->
    IF Failed(w1) THEN w1 ELSE IF Failed(w2) THEN w2 ELSE IF Failed(w3) THEN w3
    ELSE writeNodes(w3, m.extras, 1)])])])

Encode(m, indent) == writeMaterial(newWriter(normalizeIndent(indent)), m)

\* Format: the bytes written
Format(m, indent) == Encode(m, indent).buf

(***************************************************************************)
(* The validator.  An Issue is [Level, Code, Message, Path]; the file      *)
(* system is the set of the paths that exist.                              *)
(***************************************************************************)
IssueError == "error"
IssueWarning == "warning"

Issue(level, code, message, path) ==
    [Level |-> level, Code |-> code, Message |-> message, Path |-> path]

\* the static tables of known names
knownPixelShaderID == {<<"S","u","p","e","r">>, <<"M","u","l","t","i">>, <<"N","o","r","m","a","l">>}
knownVertexShaderID == {<<"S","u","p","e","r">>, <<"M","u","l","t","i">>, <<"B","a","s","i","c">>}
knownStageNames ==
    {<<"S","t","a","g","e","0">>, <<"S","t","a","g","e","1">>, <<"S","t","a","g","e","2">>, <<"S","t","a","g","e","3">>, <<"S","t","a","g","e","4">>, <<"S","t","a","g","e","5">>,
     <<"S","t","a","g","e","6">>, <<"S","t","a","g","e","7">>, <<"S","t","a","g","e","T","I">>}
knownProceduralFns == {<<"c","o","l","o","r">>, <<"f","r","e","s","n","e","l">>, <<"f","r","e","s","n","e","l","g","l","a","s","s">>, <<"i","r","r","a","d","i","a","n","c","e">>}
knownTextureTags == {<<"c","o">>, <<"c","a">>, <<"n","o","h","q">>, <<"s","m","d","i">>, <<"a","s">>, <<"d","t">>, <<"m","c">>}

\* ValidateOptions.normalize; o is a pointer
normalizeValidate(o) ==
    IF o = <<>>
    THEN [GameRoot |-> <<>>, ExcludePaths |-> <<>>, DisableFileCheck |-> TRUE,
          DisableExtensionsCheck |-> FALSE, DisableShaderNameCheck |-> FALSE]
    ELSE IF o[1].GameRoot = <<>> THEN [o[1] EXCEPT !.DisableFileCheck = TRUE]
    ELSE o[1]

\* TextureValidateOptions.normalize
normalizeTextureValidate(o) ==
    IF o = <<>>
    THEN [DisableProceduralFnCheck |-> FALSE, DisableProceduralArgsCheck |-> FALSE,
          DisableTextureTagCheck |-> FALSE]
    ELSE o[1]

validateColor(name, vals) ==
    IF Len(vals) = 0 THEN <<>>
    ELSE IF Len(vals) # 4
         THEN <<Issue(IssueError, "", "color must have 4 components", name)>>
    ELSE <<>>

\* strings.Split and strings.Join for a separator of one character
RECURSIVE SplitOn(_, _)
SplitOn(s, c) ==
    With([k \in {IndexByte(s, c)} |->
    IF k = 0 THEN <<s>>
    ELSE <<SubSeq(s, 1, k - 1)>> \o SplitOn(SubSeq(s, k + 1, Len(s)), c)])

RECURSIVE JoinOn(_, _)
JoinOn(parts, c) ==
    IF parts = <<>> THEN <<>>
    ELSE IF Len(parts) = 1 THEN parts[1]
    ELSE parts[1] \o <<c>> \o JoinOn(Tail(parts), c)

\* strings.ReplaceAll for one character
ReplaceAll(s, old, new) == [k \in 1..Len(s) |-> IF s[k] = old THEN new ELSE s[k]]

\* filepath.Ext with "/" as the separator: the suffix from the last "." of
\* the last element
Ext(path) ==
    With([dot \in {LastIndexByte(path, ".")} |->
    IF dot = 0 \/ LastIndexByte(path, "/") > dot THEN <<>>
    ELSE SubSeq(path, dot, Len(path))])

defaultTextureExts == <<<<".","p","a","a">>, <<".","p","a","x">>, <<".","t","g","a">>>>

hasAllowedExt(path) ==
    \E k \in DOMAIN defaultTextureExts : ToLower(Ext(path)) = ToLower(defaultTextureExts[k])

normalizePathForMatch(p) == ToLower(ReplaceAll(TrimSpace(p), "/", BS))

shouldExcludePath(path, patterns) ==
    \E k \in DOMAIN patterns :
        /\ patterns[k] # <<>>
        /\ With([pp \in {normalizePathForMatch(patterns[k])} |->
           IF HasSuffix(pp, <<"*">>)
           THEN HasPrefix(normalizePathForMatch(path), TrimSuffix(pp, <<"*">>))
           ELSE normalizePathForMatch(path) = pp])

\* filepath.Clean with "/" as the separator
RECURSIVE cleanFrom(_, _, _, _)
cleanFrom(elems, k, stack, rooted) ==
    IF k > Len(elems) THEN stack
    ELSE IF elems[k] = <<>> \/ elems[k] = <<".">> THEN cleanFrom(elems, k + 1, stack, rooted)
    ELSE IF elems[k] = <<".", ".">>
         THEN IF stack # <<>> /\ stack[Len(stack)] # <<".", ".">>
              THEN cleanFrom(elems, k + 1, SubSeq(stack, 1, Len(stack) - 1), rooted)
              ELSE IF rooted THEN cleanFrom(elems, k + 1, stack, rooted)
              ELSE cleanFrom(elems, k + 1, Append(stack, elems[k]), rooted)
    ELSE cleanFrom(elems, k + 1, Append(stack, elems[k]), rooted)

Clean(path) ==
    With([rooted \in {path # <<>> /\ path[1] = "/"} |->
    With([body \in {JoinOn(cleanFrom(SplitOn(path, "/"), 1, <<>>, rooted), "/")} |->
    IF rooted THEN <<"/">> \o body
    ELSE IF body = <<>> THEN <<".">> ELSE body])])

hasVolume(p) == Len(p) >= 2 /\ p[2] = ":"

normalizeOSPath(p) == ReplaceAll(p, BS, "/")

\* PathResolver.ResolvePath
ResolvePath(gameRoot, raw) ==
    IF raw = <<>> THEN <<>>
    ELSE With([norm \in {normalizeOSPath(raw)} |->
         IF norm[1] = "/" \/ hasVolume(norm) THEN Clean(norm)
         ELSE IF gameRoot = <<>> THEN Clean(norm)
         ELSE Clean(gameRoot \o <<"/">> \o norm)])

\* strings.Contains(s, "..")
HasDotDot(s) == \E k \in 1..(Len(s) - 1) : s[k] = "." /\ s[k + 1] = "."

IsProcedural(t) == t.Kind = "procedural"
IsPath(t) == t.Kind = "path"

\* the texture file checks of Validate for one stage
textureFileIssues(st, vopt, files) ==
    IF st.Texture.Raw = <<>> \/ IsProcedural(st.Texture) THEN <<>>
    ELSE With([raw \in {st.Texture.Raw} |->
         With([p \in {ResolvePath(vopt.GameRoot, raw)} |->
            (IF ~vopt.DisableExtensionsCheck /\ ~hasAllowedExt(raw)
             THEN <<Issue(IssueWarning, "", "unexpected texture extension", raw)>> ELSE <<>>)
         \o (IF HasDotDot(raw)
             THEN <<Issue(IssueWarning, "", "texture path contains '..'", raw)>> ELSE <<>>)
         \o (IF /\ ~vopt.DisableFileCheck
                /\ ~shouldExcludePath(raw, vopt.ExcludePaths)
                /\ p # <<>> /\ p \notin files
             THEN <<Issue(IssueWarning, "missing_resource", "texture file not found", p)>>
             ELSE <<>>)])])

\* the stage-name and UV-wiring checks of Validate for one stage
stageIssues(st, vopt) ==
       (IF ~vopt.DisableShaderNameCheck /\ st.Name \notin knownStageNames
        THEN <<Issue(IssueWarning, "", "unknown Stage name", st.Name)>> ELSE <<>>)
    \o (IF st.Name = <<"S","t","a","g","e","T","I">> \/ st.Name = <<"S","t","a","g","e","0">> THEN <<>>
        ELSE IF st.UVSource = <<"n","o","n","e">> \/ st.UVSource = <<"W","o","r","l","d","P","o","s">> THEN <<>>
        ELSE IF st.TexGen # <<>> THEN <<>>
        ELSE IF st.UVSource = <<>> /\ st.UVTransform = <<>>
             THEN <<Issue(IssueWarning, "", "stage without texGen missing uvSource", st.Name),
                    Issue(IssueWarning, "", "stage without texGen missing uvTransform", st.Name)>>
        ELSE IF st.UVTransform = <<>>
             THEN <<Issue(IssueWarning, "", "stage without texGen missing uvTransform", st.Name)>>
        ELSE <<>>)

\* the loops of Validate over m.Stages from stage k on
RECURSIVE textureLoop(_, _, _, _)
textureLoop(stages, k, vopt, files) ==
    IF k > Len(stages) THEN <<>>
    ELSE textureFileIssues(stages[k], vopt, files) \o textureLoop(stages, k + 1, vopt, files)

RECURSIVE stageLoop(_, _, _)
stageLoop(stages, k, vopt) ==
    IF k > Len(stages) THEN <<>>
    ELSE stageIssues(stages[k], vopt) \o stageLoop(stages, k + 1, vopt)

\* duplicateLoop without the test for the empty name
RECURSIVE duplicateLoopEmptyToo(_, _, _)
duplicateLoopEmptyToo(stages, k, seen) ==
    IF k > Len(stages) THEN <<>>
    ELSE IF stages[k].Name \in seen
         THEN <<Issue(IssueError, "", "duplicate Stage name", stages[k].Name)>>
              \o duplicateLoopEmptyToo(stages, k + 1, seen)
    ELSE duplicateLoopEmptyToo(stages, k + 1, seen \cup {stages[k].Name})

RECURSIVE duplicateLoop(_, _, _)
duplicateLoop(stages, k, seen) ==
    IF k > Len(stages) THEN <<>>
    ELSE IF stages[k].Name = <<>> THEN duplicateLoop(stages, k + 1, seen)
    ELSE IF stages[k].Name \in seen
         THEN <<Issue(IssueError, "", "duplicate Stage name", stages[k].Name)>>
              \o duplicateLoop(stages, k + 1, seen)
    ELSE duplicateLoop(stages, k + 1, seen \cup {stages[k].Name})

\* the result of a call: the issues returned, or a panic (nil dereference)
Returned(out) == [panic |-> FALSE, out |-> out]
Panic == [panic |-> TRUE, out |-> <<>>]

\* Validate(m, opt); m and opt are pointers
Validate(m, opt, files) ==
    With([vopt \in {normalizeValidate(opt)} |->
    IF m = <<>> THEN Panic
    ELSE Returned(
           (IF Len(m[1].Stages) > 0 /\ m[1].PixelShaderID = <<>>
            THEN <<Issue(IssueWarning, "", "PixelShaderID missing", <<>>)>> ELSE <<>>)
        \o (IF Len(m[1].Stages) > 0 /\ m[1].VertexShaderID = <<>>
            THEN <<Issue(IssueWarning, "", "VertexShaderID missing", <<>>)>> ELSE <<>>)
        \o (IF /\ ~vopt.DisableShaderNameCheck /\ m[1].PixelShaderID # <<>>
               /\ m[1].PixelShaderID \notin knownPixelShaderID
            THEN <<Issue(IssueWarning, "", "unknown PixelShaderID", m[1].PixelShaderID)>>
            ELSE <<>>)
        \o (IF /\ ~vopt.DisableShaderNameCheck /\ m[1].VertexShaderID # <<>>
               /\ m[1].VertexShaderID \notin knownVertexShaderID
            THEN <<Issue(IssueWarning, "", "unknown VertexShaderID", m[1].VertexShaderID)>>
            ELSE <<>>)
        \o validateColor(<<"a","m","b","i","e","n","t">>, m[1].Ambient)
        \o validateColor(<<"d","i","f","f","u","s","e">>, m[1].Diffuse)
        \o validateColor(<<"f","o","r","c","e","d","D","i","f","f","u","s","e">>, m[1].ForcedDiffuse)
        \o validateColor(<<"e","m","m","i","s","i","v","e">>, m[1].Emmisive)
        \o validateColor(<<"s","p","e","c","u","l","a","r">>, m[1].Specular)
        \o (IF ~vopt.DisableFileCheck \/ ~vopt.DisableExtensionsCheck
            THEN textureLoop(m[1].Stages, 1, vopt, files) ELSE <<>>)
        \o stageLoop(m[1].Stages, 1, vopt)
        \o duplicateLoop(m[1].Stages, 1, {}))])

proceduralArgsOK(fn, args) ==
    IF fn = <<"c","o","l","o","r">> THEN Len(args) = 4 \/ Len(args) = 5
    ELSE IF fn = <<"f","r","e","s","n","e","l">> THEN Len(args) = 2
    ELSE IF fn = <<"f","r","e","s","n","e","l","g","l","a","s","s">> THEN Len(args) \in {0, 1, 2}
    ELSE IF fn = <<"i","r","r","a","d","i","a","n","c","e">> THEN Len(args) = 1
    ELSE TRUE

validateTexture(t, opt) ==
    IF t.Raw = <<>> \/ IsPath(t) THEN <<>>
    ELSE IF ~t.ParsedOK \/ t.Procedural = <<>>
         THEN IF \/ ~opt.DisableProceduralFnCheck \/ ~opt.DisableProceduralArgsCheck
                 \/ ~opt.DisableTextureTagCheck
              THEN <<Issue(IssueWarning, "", "procedural texture parse failed", t.Raw)>>
              ELSE <<>>
    ELSE With([pt \in {t.Procedural[1]} |->
         With([fn \in {ToLower(pt.Func)} |->
         With([tag \in {IF pt.Color # <<>> THEN pt.Color[1].Tag
                        ELSE IF Len(pt.Args) = 5 THEN pt.Args[5] ELSE <<>>} |->
            (IF ~opt.DisableProceduralFnCheck /\ fn \notin knownProceduralFns
             THEN <<Issue(IssueWarning, "", "unknown procedural function", pt.Func)>> ELSE <<>>)
         \o (IF ~opt.DisableProceduralArgsCheck /\ ~proceduralArgsOK(fn, pt.Args)
             THEN <<Issue(IssueWarning, "", "unexpected procedural argument count", pt.Func)>>
             ELSE <<>>)
         \o (IF /\ ~opt.DisableTextureTagCheck /\ fn = <<"c","o","l","o","r">> /\ tag # <<>>
                /\ ToLower(tag) \notin knownTextureTags
             THEN <<Issue(IssueWarning, "", "unknown texture tag", tag)>> ELSE <<>>)])])])

withStageContext(issue, stage) ==
    IF stage = <<>> THEN issue
    ELSE IF issue.Path = <<>> THEN [issue EXCEPT !.Path = stage]
    ELSE [issue EXCEPT !.Path = stage \o <<":", " ">> \o @]

\* the loop of ValidateWithTextureOptions over m.Stages from stage k on
RECURSIVE textureRefLoop(_, _, _)
textureRefLoop(stages, k, texOpt) ==
    IF k > Len(stages) THEN <<>>
    ELSE With([issues \in {validateTexture(stages[k].Texture, normalizeTextureValidate(texOpt))} |->
            [i \in DOMAIN issues |-> withStageContext(issues[i], stages[k].Name)]
         \o textureRefLoop(stages, k + 1, texOpt)])

\* ValidateWithTextureOptions(m, opt, texOpt): Validate is called first
ValidateWithTextureOptions(m, opt, texOpt, files) ==
    With([out \in {Validate(m, opt, files)} |->
    IF out.panic THEN Panic
    ELSE IF m = <<>> THEN out
    ELSE IF texOpt = <<>> THEN out
    ELSE Returned(out.out \o textureRefLoop(m[1].Stages, 1, texOpt))])

(***************************************************************************)
(* Inputs.  A document is a sequence of items of Pool, one per line.  Each *)
(* item carries, beside its text t, what it is: kind "color" (a top-level  *)
(* color array), "scalar" (specularPower or a shader id), "stage",         *)
(* "texgen" or "extra"; for a color or a scalar, field is the Material     *)
(* field, key the key the parser compares the name with and name the name  *)
(* as written; for a numeric array, n is the number of its elements and    *)
(* bad the positions of those that are no numbers (for a stage: of the     *)
(* vector up of its uvTransform).                                          *)
(***************************************************************************)
Item(t, kind, field, key, name, n, bad) ==
    [t |-> t, kind |-> kind, field |-> field, key |-> key, name |-> name,
     n |-> n, bad |-> bad]

Pool ==
  << Item(<<"a","m","b","i","e","n","t","[","]","=","{","1",",","0",".","5",",","0",",","1","}",";">>, "color", "Ambient", <<"a","m","b","i","e","n","t">>, <<"a","m","b","i","e","n","t">>, 4, {}),
     Item(<<"D","i","F","f","U","s","e","[","]"," ","="," ","{","0",".","7","5",","," ","1",".","5",","," ",Q,"1",".","2","5",".","1",Q,","," ","0",".","0","}",";">>,
          "color", "Diffuse", <<"d","i","f","f","u","s","e">>, <<"D","i","F","f","U","s","e">>, 4, {3}),
     Item(<<"f","o","r","c","e","d","D","i","f","f","u","s","e","[","]","=","{","0",",","x",",","1","e","6","}",";">>,
          "color", "ForcedDiffuse", <<"f","o","r","c","e","d","d","i","f","f","u","s","e">>, <<"f","o","r","c","e","d","D","i","f","f","u","s","e">>, 3, {2}),
     Item(<<"e","m","m","i","s","i","v","e","[","]","=","{","0",",","0",",","0",",","1","}",";">>, "color", "Emmisive", <<"e","m","m","i","s","i","v","e">>, <<"e","m","m","i","s","i","v","e">>, 4, {}),
     Item(<<"S","P","E","C","U","L","A","R","[","]","=","{",Q,"2",Q,",","1",".",",","-","0",".","0","0","0","0","1","}",";">>,
          "color", "Specular", <<"s","p","e","c","u","l","a","r">>, <<"S","P","E","C","U","L","A","R">>, 3, {}),
     Item(<<"s","p","e","c","u","l","a","r","P","o","w","e","r","=","1","5","0","0",";">>,
          "scalar", "SpecularPower", <<"s","p","e","c","u","l","a","r","p","o","w","e","r">>, <<"s","p","e","c","u","l","a","r","P","o","w","e","r">>, 0, {}),
     Item(<<"P","i","x","e","l","S","h","a","d","e","r","I","D","=",Q,"S","u","p","e","r",Q,";">>,
          "scalar", "PixelShaderID", <<"p","i","x","e","l","s","h","a","d","e","r","i","d">>, <<"P","i","x","e","l","S","h","a","d","e","r","I","D">>, 0, {}),
     Item(<<"v","e","r","t","e","x","s","h","a","d","e","r","i","d","=","B","a","s","i","c",";">>,
          "scalar", "VertexShaderID", <<"v","e","r","t","e","x","s","h","a","d","e","r","i","d">>, <<"v","e","r","t","e","x","s","h","a","d","e","r","i","d">>, 0, {}),
     Item(<<"c","l","a","s","s"," ","s","t","a","g","e","1"," ","{"," ","t","e","x","t","u","r","e","=",Q,"a",BS,"b",".","p","a","a",Q,";"," ","u","v","S","o","u","r","c","e","=",Q,"t","e","x",Q,";"," ","c","l","a","s","s"," ","u","v","T","r","a","n","s","f","o","r","m"," ","{"," ","a","s","i","d","e","[","]","=","{","1",",","0","}",";"," ","u","p","[","]","=","{","0",",",Q,"y",Q,"}",";"," ","j","u","n","k","[","]","=","{","7","}",";"," ","}",";"," ","F","i","l","t","e","r","=",Q,"L",Q,";"," ","}",";">>,
          "stage", "", <<>>, <<"s","t","a","g","e","1">>, 2, {2}),
     Item(<<"c","l","a","s","s"," ","S","t","a","g","e","2"," ","{"," ","T","E","X","T","U","R","E","=",Q,"#","(","a","r","g","b",",","8",",","8",",","3",")","c","o","l","o","r","(","1",",","1",",","1",",","1",",","C","O",")",Q,";"," ","t","e","x","G","e","n","=",Q,"0",Q,";"," ","u","v","S","o","u","r","c","e","=",Q,"t","1",Q,";"," ","}",";">>,
          "stage", "", <<>>, <<"S","t","a","g","e","2">>, 0, {}),
     Item(<<"c","l","a","s","s"," ","T","e","x","G","e","n","0"," ","{"," ","u","v","S","o","u","r","c","e","=",Q,"t","e","x",Q,";"," ","c","l","a","s","s"," ","u","v","T","r","a","n","s","f","o","r","m"," ","{"," ","p","o","s","[","]","=","{","0",",","0","}",";"," ","}",";"," ","}",";">>,
          "texgen", "", <<>>, <<"T","e","x","G","e","n","0">>, 0, {}),
     Item(<<"c","l","a","s","s"," ","t","e","x","g","e","n","1"," ",":"," ","T","e","x","G","e","n","0"," ","{"," ","q","=","1",";"," ","}",";">>, "texgen", "", <<>>, <<"t","e","x","g","e","n","1">>, 0, {}),
     Item(<<"s","u","r","f","a","c","e","I","n","f","o","=",Q,"d","z",BS,"m","e","t","a","l",".","b","i","s","u","r","f",Q,";">>, "extra", "", <<>>, <<"s","u","r","f","a","c","e","I","n","f","o">>, 0, {}),
     Item(<<"n","o","t","e","=",Q,"s","a","y"," ",Q,Q,"h","i",Q,Q,Q,";">>, "extra", "", <<>>, <<"n","o","t","e">>, 0, {}),
     Item(<<"p","a","t","h","=",Q,"a",BS,BS,BS,BS,"b",Q,";">>, "extra", "", <<>>, <<"p","a","t","h">>, 0, {}),
     Item(<<"c","l","a","s","s"," ","E","x","t","r","a"," ",":"," ","B","a","s","e"," ","{"," ","a","[","]","=","{","x",",",Q,"s",Q,",","{","1","}","}",";"," ","c","l","a","s","s"," ","S","u","b"," ","{"," ","b","=","2",";"," ","}",";"," ","}",";">>,
          "extra", "", <<>>, <<"E","x","t","r","a">>, 0, {}),
     Item(<<"c","l","a","s","s"," ","s","t","a","g","e","3"," ","{"," ","t","e","x","t","u","r","e","=",Q,"c",".","p","a","a",Q,";"," ","t","e","x","g","e","n","=",Q,"1",Q,";"," ","u","v","S","o","u","r","c","e","=",Q,"t","e","x",Q,";"," ","c","l","a","s","s"," ","u","v","T","r","a","n","s","f","o","r","m"," ","{"," ","p","o","s","[","]","=","{","0",",","1","}",";"," ","}",";"," ","c","l","a","s","s"," ","u","v","T","r","a","n","s","f","o","r","m"," ",":"," ","B","a","s","e"," ","{"," ","x","=","1",";"," ","}",";"," ","}",";">>,
          "stage", "", <<>>, <<"s","t","a","g","e","3">>, 0, {}),
     Item(<<"c","l","a","s","s"," ","S","t","a","g","e","9"," ",":"," ","B","a","s","e"," ","{"," ","t","e","x","t","u","r","e","=",Q,"t",Q,";"," ","u","v","S","o","u","r","c","e","=",Q,"t","e","x",Q,";"," ","}",";">>,
          "extra", "", <<>>, <<"S","t","a","g","e","9">>, 0, {}) >>

\* the longest document, in items
MaxItems == 2

Docs == UNION {[1..n -> 1..Len(Pool)] : n \in 0..MaxItems}

RECURSIVE DocText(_)
DocText(d) ==
    IF d = <<>> THEN <<>>
    ELSE DocText(SubSeq(d, 1, Len(d) - 1)) \o Pool[d[Len(d)]].t \o <<NL>>

\* ParseOptions; nil options are ParseOptions{}
DefaultParseOptions ==
    [DisableCaseInsensitive |-> FALSE, DisableComments |-> FALSE,
     DisableRelaxedNumbers |-> FALSE]

\* the options documents are parsed with: the default and each toggle alone
ParseOptionsSet ==
    {DefaultParseOptions,
     [DefaultParseOptions EXCEPT !.DisableCaseInsensitive = TRUE],
     [DefaultParseOptions EXCEPT !.DisableComments = TRUE],
     [DefaultParseOptions EXCEPT !.DisableRelaxedNumbers = TRUE]}

\* the options damaged texts are parsed with
LexOptionsSet ==
    {DefaultParseOptions, [DefaultParseOptions EXCEPT !.DisableComments = TRUE]}

\* Damaged inputs: a text of Bases with a piece of junk put before its k-th
\* character (k past the end: appended), or cut off before it.
Bases ==
  << <<"a","[","]","=","{","1",",","x","}",";","b","=","1",";">>,
     <<"c","l","a","s","s"," ","S","t","a","g","e","1","{","t","e","x","t","u","r","e","=",Q,"t",Q,";","c","l","a","s","s"," ","u","v","T","r","a","n","s","f","o","r","m","{","p","o","s","[","]","=","{","0","}",";","}",";","}",";">>,
     <<"c","l","a","s","s"," ","T","e","x","G","e","n","0",":","A","{","c","l","a","s","s"," ","C",":","B","{","v","[","]","=","{","a",",","{","1","}","}",";","}",";","}",";">> >>

Junk ==
    [block |-> <<"/","*","c","*","/">>, line |-> <<"/","/","c", NL, " ">>, slash |-> <<"/">>,
     open |-> <<"/","*">>, at |-> <<"@">>, quote |-> <<Q>>, nul |-> <<NUL>>,
     space |-> <<" ", NL, " ">>]

JunkKinds == {"block", "line", "slash", "open", "at", "quote", "space"}

Insert(text, junk, k) == SubSeq(text, 1, k - 1) \o junk \o SubSeq(text, k, Len(text))

Damage(text, kind, k) ==
    IF kind = "cut" THEN SubSeq(text, 1, k - 1) ELSE Insert(text, Junk[kind], k)

\* the numbers of spaces put before an input with a NUL byte, so that the
\* byte falls before, at and after the end of the peeked prefix
Pads == {0, PeekSize - 2, PeekSize}

\* Materials built through the public model, as the round-trip tests build them
BuiltUV == [Aside |-> <<ParseFloat(<<"1">>).num, Zero, Zero>>,
            Up    |-> <<Zero, ParseFloat(<<"1">>).num, Zero>>,
            Dir   |-> <<Zero, Zero, Zero>>,
            Pos   |-> <<Zero, Zero, Zero>>]

Ones == [k \in 1..4 |-> ParseFloat(<<"1">>).num]

Built ==
  << [NewMaterial EXCEPT
        !.PixelShaderID = <<"S","u","p","e","r">>, !.VertexShaderID = <<"S","u","p","e","r">>,
        !.Ambient = Ones, !.Diffuse = Ones,
        !.ForcedDiffuse = <<Zero, Zero, Zero, Zero>>,
        !.Emmisive = <<Zero, Zero, Zero, ParseFloat(<<"1">>).num>>,
        !.Specular = [k \in 1..4 |-> ParseFloat(IF k < 4 THEN <<"0",".","7","5">> ELSE <<"1">>).num],
        !.Stages = << [NewStage(<<"S","t","a","g","e","1">>) EXCEPT
                         !.Texture = ParseTextureRef(<<"d","z",BS,"g","e","a","r",BS,"d","a","t","a",BS,"c","a","u","l","d","r","o","n","_","n","o","h","q",".","p","a","a">>),
                         !.UVSource = <<"t","e","x">>,
                         !.UVTransform = <<BuiltUV>>] >>],
     [NewMaterial EXCEPT
        !.PixelShaderID = <<"M","u","l","t","i">>, !.VertexShaderID = <<"M","u","l","t","i">>,
        !.Ambient = Ones,
        !.SpecularPower = <<ParseFloat(<<"1","5","0","0">>).num>>,
        !.TexGens = << [NewTexGen(<<"T","e","x","G","e","n","0">>, <<>>) EXCEPT
                          !.UVSource = <<"t","e","x">>, !.UVTransform = <<BuiltUV>>] >>,
        !.Stages = << [NewStage(<<"S","t","a","g","e","0">>) EXCEPT
                         !.Texture = ParseTextureRef(<<"d","z",BS,"d","a","t","a",BS,"r","o","o","f","_","c","o",".","p","a","a">>),
                         !.TexGen = <<"0">>],
                      [NewStage(<<"S","t","a","g","e","5">>) EXCEPT
                         !.Texture = ParseTextureRef(<<"d","z",BS,"g","e","a","r",BS,"d","a","t","a",BS,"c","a","u","l","d","r","o","n","_","n","o","h","q",".","p","a","a">>),
                         !.UVSource = <<"t","e","x">>,
                         !.UVTransform = <<BuiltUV>>] >>],
     [NewMaterial EXCEPT
        !.Stages = << [NewStage(<<"S","t","a","g","e","1">>) EXCEPT
                         !.Texture = ParseTextureRef(<<"a",".","p","a","a">>),
                         !.UVSource = <<"t","e","x">>,
                         !.TexGen = <<"0">>,
                         !.UVTransform = <<BuiltUV>>],
                      [NewStage(<<"S","t","a","g","e","2">>) EXCEPT
                         !.UVTransform = <<BuiltUV>>],
                      [NewStage(<<"S","t","a","g","e","3">>) EXCEPT
                         !.UVSource = <<"t","e","x","1">>] >>] >>

(***************************************************************************)
(* Inputs of the uvTransform grammar: a Stage or a TexGen whose uvTransform *)
(* class holds up to MaxEntries entries of UVEntries.  A body is numbered  *)
(* by the digits of its entries; digit 0 is no entry.                      *)
(***************************************************************************)
MaxEntries == 3

\* t: the text; key: the name; form: what the entry is; vals: the numbers
UVEntries ==
  << [t |-> <<"a","s","i","d","e","[","]","=","{","1",",","0","}",";">>, key |-> <<"a","s","i","d","e">>, form |-> "array",
      vals |-> <<ParseFloat(<<"1">>).num, Zero>>],
     [t |-> <<"p","o","s","[","]","=","{","2","}",";">>, key |-> <<"p","o","s">>, form |-> "array", vals |-> <<ParseFloat(<<"2">>).num>>],
     [t |-> <<"P","O","S","=","{","3",",","4","}",";">>, key |-> <<"P","O","S">>, form |-> "array",
      vals |-> <<ParseFloat(<<"3">>).num, ParseFloat(<<"4">>).num>>],
     [t |-> <<"j","u","n","k","[","]","=","{","7","}",";">>, key |-> <<"j","u","n","k">>, form |-> "array", vals |-> <<ParseFloat(<<"7">>).num>>],
     [t |-> <<"p","o","s","[","]","=","{","}",";">>, key |-> <<"p","o","s">>, form |-> "array", vals |-> <<>>],
     [t |-> <<"p","o","s","=","1",";">>, key |-> <<"p","o","s">>, form |-> "scalar", vals |-> <<>>],
     [t |-> <<"c","l","a","s","s"," ","S","u","b","{","}",";">>, key |-> <<"S","u","b">>, form |-> "class", vals |-> <<>>] >>

UVCodes == 0..((Len(UVEntries) + 1) ^ MaxEntries - 1)

\* the entries of body number k, first entry in the lowest digit
RECURSIVE UVBody(_)
UVBody(k) ==
    IF k = 0 THEN <<>>
    ELSE (IF k % (Len(UVEntries) + 1) = 0 THEN <<>> ELSE <<k % (Len(UVEntries) + 1)>>)
         \o UVBody(k \div (Len(UVEntries) + 1))

RECURSIVE UVBodyText(_)
UVBodyText(es) == IF es = <<>> THEN <<>> ELSE UVEntries[es[1]].t \o UVBodyText(Tail(es))

UVOwners ==
    [stage  |-> [open |-> <<"c","l","a","s","s"," ","s","t","a","g","e","1","{","t","e","x","t","u","r","e","=",Q,"a",Q,";","c","l","a","s","s"," ","u","v","T","r","a","n","s","f","o","r","m","{">>, close |-> <<"}",";","}",";">>],
     texgen |-> [open |-> <<"c","l","a","s","s"," ","t","e","x","g","e","n","0","{","c","l","a","s","s"," ","u","v","T","r","a","n","s","f","o","r","m","{">>, close |-> <<"}",";","}",";">>]]

UVText(owner, k) == UVOwners[owner].open \o UVBodyText(UVBody(k)) \o UVOwners[owner].close

\* the options uvTransform bodies are parsed with
UVOptionsSet == {DefaultParseOptions, [DefaultParseOptions EXCEPT !.DisableCaseInsensitive = TRUE]}

(***************************************************************************)
(* Inputs of the lexer and of the token buffer: words that start like a    *)
(* number, over WordChars and up to MaxWord characters, beside some longer *)
(* ones; spellings of the class keyword; what follows a word; and the      *)
(* texts a caller walks through with peek and next, MaxCalls calls long.   *)
(***************************************************************************)
MaxWord == 4
MaxCalls == 5

WordChars == {"1", "-", ".", "e", "+", "s"}

Words ==
    {w \in UNION {[1..n -> WordChars] : n \in 1..MaxWord} : isNumberStart(w[1])}
    \cup {<<"1","s","p","e","c","u","l","a","r">>, <<"1",".","2",".","3">>, <<"-","1",".","5","E","-","3">>, <<"0","_","$","9">>, <<"1","2","e","+","1","0">>,
          <<"-","i","n","f">>, <<"-","I","n","f","i","n","i","t","y">>}

Keywords ==
    {<<"c","l","a","s","s">>, <<"C","L","A","S","S">>, <<"C","l","a","s","s">>, <<"c","l","a","s","S">>, <<"c","l","a","s","s","e","s">>, <<"c","l","a","s">>, <<"_","c","l","a","s","s">>}

WordTails == {<<>>, <<";">>, <<" ","2">>, <<"=","x">>}

ScanTexts ==
    {<<>>, <<"a","=","1",";">>, <<"c","l","a","s","s"," ","A","{","}",";">>, <<"x"," ",Q,"s">>, <<"b","[","]","=","{","-","1",",",Q,"t",Q,"}"," ","@">>, <<"1"," ","/","*","c">>}

(***************************************************************************)
(* Inputs of the validator: Materials put together from a top level of     *)
(* TopPool and up to MaxStages stages of StagePool, and the option values  *)
(* of OptCases, each with the set of the files that exist.                 *)
(***************************************************************************)
MaxStages == 3

StagePool ==
  << [NewStage(<<"S","t","a","g","e","1">>) EXCEPT
        !.Texture = ParseTextureRef(<<"a",BS,"b","_","c","o",".","p","a","a">>),
        !.UVSource = <<"t","e","x">>, !.UVTransform = <<BuiltUV>>],
     [NewStage(<<"S","t","a","g","e","1">>) EXCEPT
        !.Texture = ParseTextureRef(<<"#","(","a","r","g","b",",","8",",","8">>)],
     [NewStage(<<"S","t","a","g","e","2">>) EXCEPT
        !.Texture = ParseTextureRef(<<".",".",BS,"a",".","p","n","g">>), !.UVSource = <<"t","e","x">>],
     [NewStage(<<"S","t","a","g","e","4">>) EXCEPT
        !.Texture = ParseTextureRef(<<"a",".","p","a","a">>), !.UVTransform = <<BuiltUV>>],
     [NewStage(<<"S","t","a","g","e","0">>) EXCEPT
        !.Texture = ParseTextureRef(<<"x",BS,"m","i","s","s","i","n","g",".","p","a","a">>)],
     [NewStage(<<>>) EXCEPT
        !.Texture = ParseTextureRef(<<"#","(","a","r","g","b",",","8",",","8",",","3",")","c","o","l","o","r","(","1",",","1",",","1",",","1",",","X","X",")">>),
        !.TexGen = <<"0">>],
     [NewStage(<<"F","o","o">>) EXCEPT
        !.Texture = ParseTextureRef(<<"#","(","a","r","g","b",",","8",",","8",",","3",")","n","o","i","s","e","(","1",")">>),
        !.UVSource = <<"W","o","r","l","d","P","o","s">>] >>

TopPool ==
  << [NewMaterial EXCEPT
        !.PixelShaderID = <<"S","u","p","e","r">>, !.VertexShaderID = <<"S","u","p","e","r">>, !.Ambient = Ones],
     [NewMaterial EXCEPT
        !.VertexShaderID = <<"B","o","g","u","s">>, !.Diffuse = <<Zero, Zero, Zero>>, !.Specular = Ones],
     [NewMaterial EXCEPT
        !.PixelShaderID = <<"W","e","i","r","d">>, !.Ambient = <<Zero, Zero>>,
        !.ForcedDiffuse = <<Zero>>, !.Emmisive = <<Zero, Zero, Zero, Zero, Zero>>] >>

StageLists ==
    UNION {[1..n -> 1..Len(StagePool)] : n \in 0..MaxStages}

MaterialOf(top, sl) ==
    [TopPool[top] EXCEPT !.Stages = [k \in DOMAIN sl |-> StagePool[sl[k]]]]

GameRoot == <<"/","g">>

ValidateOptionsOf(root, excl, noFile, noExt, noName) ==
    [GameRoot |-> root, ExcludePaths |-> excl, DisableFileCheck |-> noFile,
     DisableExtensionsCheck |-> noExt, DisableShaderNameCheck |-> noName]

\* opt is the *ValidateOptions handed over, files the paths that exist
OptCases ==
  << [opt |-> <<>>, files |-> {}],
     [opt |-> <<ValidateOptionsOf(GameRoot, <<<<"X","/","*">>, <<>>, <<"n","o","t","h","i","n","g">>>>, FALSE, FALSE, FALSE)>>,
      files |-> {<<"/","g","/","a","/","b","_","c","o",".","p","a","a">>}],
     [opt |-> <<ValidateOptionsOf(<<>>, <<>>, FALSE, TRUE, TRUE)>>, files |-> {}],
     [opt |-> <<ValidateOptionsOf(GameRoot, <<>>, FALSE, TRUE, FALSE)>>,
      files |-> {<<"/","g","/","a","/","b","_","c","o",".","p","a","a">>, <<"/","g","/","a",".","p","a","a">>, <<"/","g","/","x","/","m","i","s","s","i","n","g",".","p","a","a">>, <<"/","a",".","p","n","g">>}] >>

TextureValidateOptionsOf(noFn, noArgs, noTag) ==
    [DisableProceduralFnCheck |-> noFn, DisableProceduralArgsCheck |-> noArgs,
     DisableTextureTagCheck |-> noTag]

\* the *TextureValidateOptions handed over
TexOptCases ==
    { <<>>, <<TextureValidateOptionsOf(FALSE, FALSE, FALSE)>>,
      <<TextureValidateOptionsOf(TRUE, FALSE, TRUE)>> }

(***************************************************************************)
(* The state machine: a caller parses an input or builds a Material, then  *)
(* formats the Material, parses the output and formats again.              *)
(*   pc    where the caller is                                             *)
(*   doc   the items of the input, when it is a document of Pool           *)
(*   mut   the damage done to the input, when it is a damaged text         *)
(*   src   the input of Parse: src.pad spaces, then src.body               *)
(*   opt   the options of Parse                                            *)
(*   res   what Parse returned                                             *)
(*   mat   the Material in hand (a pointer)                                *)
(*   out   Format(mat), res2 = Parse(out), out2 = Format(res2.m)           *)
(* or hands a string or typed parts to the texture functions:              *)
(*   tin   the input of the texture function called                        *)
(*   tr    the TextureRef it returned                                      *)
(* or hands a Material to the validator:                                   *)
(*   vin     the input of the validator function called                    *)
(*   issues  what the call returned                                        *)
(* or creates a parser on a text and asks it for tokens:                   *)
(*   lin     the text and the options                                      *)
(*   lp      the parser                                                    *)
(*   calls   the calls of peek and next made, with what they returned      *)
(***************************************************************************)
VARIABLES pc, doc, mut, src, opt, res, mat, out, res2, out2, tin, tr, vin, issues,
          lin, lp, calls

vars == <<pc, doc, mut, src, opt, res, mat, out, res2, out2, tin, tr, vin, issues,
          lin, lp, calls>>

\* the variables of the document operations and of the texture operations
docvars == <<doc, mut, src, opt, res, mat, out, res2, out2>>
texvars == <<tin, tr>>
valvars == <<vin, issues>>
lexvars == <<lin, lp, calls>>

NoMut == [kind |-> "none", base |-> 0, k |-> 0]
NoRes == [m |-> <<>>, err |-> NoErr, lexed |-> 0, lexerr |-> NoErr]
NoSrc == [pad |-> 0, body |-> <<>>]
\* no texture input: op is the function called, raw the text parsed or
\* built, fn and args the function name and arguments, format and dims
\* (width, height, mip) the header parts, vals the numbers and tag the tag
\* handed to a construction helper
NoTin == [op |-> "", raw |-> <<>>, fn |-> <<>>, args |-> <<>>, format |-> <<>>,
          dims |-> <<0, 0, 0>>, vals |-> <<>>, tag |-> <<>>, hasB |-> FALSE]

\* no validator input: op is the function called, m, opt and texOpt the
\* pointers handed over and files the paths that exist
NoVin == [op |-> "", m |-> <<>>, opt |-> <<>>, texOpt |-> <<>>, files |-> {}]

\* no lexer input: op is the kind of the text, text the text handed to
\* newParser and opt the options
NoLin == [op |-> "", text |-> <<>>, opt |-> DefaultParseOptions]

Init ==
    /\ pc = "idle"
    /\ doc = <<>>
    /\ mut = NoMut
    /\ src = NoSrc
    /\ opt = DefaultParseOptions
    /\ res = NoRes
    /\ mat = <<>>
    /\ out = <<>>
    /\ res2 = NoRes
    /\ out2 = <<>>
    /\ tin = NoTin
    /\ tr = NoTexture
    /\ vin = NoVin
    /\ issues = Returned(<<>>)
    /\ lin = NoLin
    /\ lp = newParser(<<>>, DefaultParseOptions)
    /\ calls = <<>>

\* Parse(data, o)
ParseInput(data, o, d, mu) ==
    /\ pc = "idle"
    /\ pc' = "parsed"
    /\ doc' = d
    /\ mut' = mu
    /\ src' = data
    /\ opt' = o
    /\ res' = Decode(data, o)
    /\ mat' = res'.m
    /\ UNCHANGED <<out, res2, out2, tin, tr, vin, issues, lin, lp, calls>>

\* Parse of a document
Load ==
    /\ pc = "idle"
    /\ \E d \in Docs, o \in ParseOptionsSet :
        ParseInput([pad |-> 0, body |-> DocText(d)], o, d, NoMut)

\* Parse of a damaged text
LoadDamaged ==
    /\ pc = "idle"
    /\ \E b \in 1..Len(Bases), kind \in JunkKinds \cup {"cut"}, o \in LexOptionsSet :
        \E k \in 1..(Len(Bases[b]) + 1) :
            ParseInput([pad |-> 0, body |-> Damage(Bases[b], kind, k)], o, <<>>,
                       [kind |-> kind, base |-> b, k |-> k])

\* Parse of a text with a NUL byte in it, behind pad spaces
LoadBinary ==
    /\ pc = "idle"
    /\ \E b \in 1..Len(Bases), pad \in Pads, o \in LexOptionsSet :
        \E k \in 1..(Len(Bases[b]) + 1) :
            ParseInput([pad |-> pad, body |-> Insert(Bases[b], Junk.nul, k)], o, <<>>,
                       [kind |-> "nul", base |-> b, k |-> k])

\* Parse of a Stage or a TexGen with a uvTransform body
LoadUV ==
    /\ pc = "idle"
    /\ \E owner \in DOMAIN UVOwners, k \in UVCodes, o \in UVOptionsSet :
        ParseInput([pad |-> 0, body |-> UVText(owner, k)], o, <<>>,
                   [kind |-> owner, base |-> 0, k |-> k])

\* texts handed to ParseTextureRef: a start, a header, what follows it and
\* an end, in every combination
TexStarts == {<<"#","(">>, <<"#">>, <<" ","#","(">>, <<"t","e","x","t","u","r","e","=",Q,"#","(">>, <<"T","E","X","T","U","R","E","=",Q,"#","(">>, <<"(">>}

TexHeads ==
    {<<"a","r","g","b",",","8",",","8",",","3">>, <<"a","r","g","b",",","8",",","8">>, <<" ","a","i"," ",","," ","1","6"," ",",","+","4",",","-","1"," ">>, <<"a","r","g","b",",","8",",","x",",","3">>,
     <<"a","r","g","b",",",",","8",",","3">>, <<"a","r","g","b",",","8",",","8",",","3",",","9">>, <<>>, <<"a",",","1",".","5",",","8",",","3">>, <<",","1",",","2",",","3">>, <<"a",",","1",",","2",",","3"," ","4">>}

TexTails ==
    {<<")","c","o","l","o","r","(","1",",","1",",","1",",","1",")">>, <<>>, <<")">>, <<")"," ">>, <<")","(","x",")">>, <<")","f","(">>, <<")","f",")","(">>,
     <<")","f","(","x">>, <<")","f","(","a",")","(","b",")">>, <<")"," ","f"," ","("," ","a"," ",","," ","b"," ",")"," ">>, <<")","f","(",")">>, <<")","f">>, <<")","f",")">>,
     <<"f","(","x",")">>, <<")","a"," ","b","(","c",")">>}

TexEnds == {<<>>, <<Q, ";">>, <<Q>>, <<" ">>, <<Q, ";", Q, ";">>}

\* the function names and the arguments put behind a good header
FuncNames ==
    {<<"c","o","l","o","r">>, <<"C","O","L","O","R">>, <<"f","r","e","s","n","e","l">>, <<"f","r","e","s","n","e","l","G","l","a","s","s">>, <<"i","r","r","a","d","i","a","n","c","e">>,
     <<"I","r","r","a","d","i","a","n","c","e">>, <<"n","o","i","s","e">>}

\* an argument text: whether it is a number, and which
Arg(t, isNum, v) == [t |-> t, isNum |-> isNum, v |-> v]

ArgPool ==
    << Arg(<<"0",".","5">>, TRUE, [neg |-> FALSE, digs |-> <<"5">>, dp |-> 0]),
       Arg(<<" ","-","1","2","e","-","1"," ">>, TRUE, [neg |-> TRUE, digs |-> <<"1", "2">>, dp |-> 1]),
       Arg(<<"C","O">>, FALSE, Zero),
       Arg(<<>>, FALSE, Zero) >>

\* the largest number of arguments
MaxArgs == 5

\* every list of up to MaxArgs arguments, and one list of numbers that is
\* one longer
ArgLists ==
    UNION {[1..n -> 1..Len(ArgPool)] : n \in 0..MaxArgs}
        \cup {[k \in 1..(MaxArgs + 1) |-> 1]}

GoodHeader == <<"#","(","a","r","g","b",",","8",",","8",",","3",")">>

\* ParseTextureRef(raw) of a text made of parts
ParseTexture ==
    /\ pc = "idle"
    /\ \E a \in TexStarts, h \in TexHeads, t \in TexTails, e \in TexEnds :
          /\ tin' = [NoTin EXCEPT !.op = "ParseTextureRef", !.raw = a \o h \o t \o e]
          /\ tr' = ParseTextureRef(a \o h \o t \o e)
    /\ pc' = "texref"
    /\ UNCHANGED <<docvars, valvars, lexvars>>

\* ParseTextureRef(raw) of a function call behind a good header
ParseFunction ==
    /\ pc = "idle"
    /\ \E fn \in FuncNames, al \in ArgLists :
          /\ tin' = [NoTin EXCEPT
                       !.op = "ParseTextureRef",
                       !.raw = GoodHeader \o fn \o <<"(">>
                               \o Join([k \in DOMAIN al |-> ArgPool[al[k]].t]) \o <<")">>,
                       !.fn = fn, !.args = al]
          /\ tr' = ParseTextureRef(tin'.raw)
    /\ pc' = "texref"
    /\ UNCHANGED <<docvars, valvars, lexvars>>

\* what the construction helpers are handed
Formats == {<<"a","r","g","b">>, <<"a","i">>, <<>>, <<"a",",","b">>, <<"a",")","b">>, <<" ","a","r","g","b">>}

Dims == {<<8, 8, 3>>, <<0, 16, -1>>}

Floats ==
    {Zero, ParseFloat(<<"0",".","5">>).num, ParseFloat(<<"-","1",".","2">>).num,
     ParseFloat(<<"1","e","6">>).num, ParseFloat(<<"1","5","e","-","6">>).num}

Colors ==
    {[k \in 1..4 |-> ParseFloat(<<"1">>).num],
     <<ParseFloat(<<"0",".","5">>).num, ParseFloat(<<"-","1",".","2">>).num,
       ParseFloat(<<"1","e","6">>).num, ParseFloat(<<"1","5","e","-","6">>).num>>,
     <<Zero, Zero, Zero, Zero>>}

Tags == {<<>>, <<"C","O">>, <<"a",",","b">>, <<" ","x">>}

HelperNames == {<<"n","o","i","s","e">>, <<"c","o","l","o","r">>}

HelperArgs ==
    {<<>>, <<String(<<"x">>), [type |-> "int", v |-> 7]>>,
     <<Float64(ParseFloat(<<"0",".","5">>).num), Float64(Zero),
       Float64(ParseFloat(<<"1","e","6">>).num), [type |-> "int", v |-> -1]>>}

\* NewProcedural(format, width, height, mip, fn, args...)
MakeProcedural ==
    /\ pc = "idle"
    /\ \E f \in Formats, d \in Dims, fn \in HelperNames, a \in HelperArgs :
          /\ tin' = [NoTin EXCEPT
                       !.op = "NewProcedural", !.format = f, !.dims = d, !.fn = fn,
                       !.raw = buildProceduralRaw(f, d[1], d[2], d[3], fn,
                                                  formatProceduralArgs(a)),
                       !.vals = a]
          /\ tr' = NewProcedural(f, d[1], d[2], d[3], fn, a)
    /\ pc' = "texref"
    /\ UNCHANGED <<docvars, valvars, lexvars>>

\* NewProceduralColor(format, width, height, mip, r, g, b, a, tag)
MakeColor ==
    /\ pc = "idle"
    /\ \E f \in Formats, d \in Dims, c \in Colors, tag \in Tags :
          /\ tin' = [NoTin EXCEPT
                       !.op = "NewProceduralColor", !.format = f, !.dims = d,
                       !.fn = <<"c","o","l","o","r">>, !.vals = c, !.tag = tag]
          /\ tr' = NewProceduralColor(f, d[1], d[2], d[3], c[1], c[2], c[3], c[4], tag)
    /\ pc' = "texref"
    /\ UNCHANGED <<docvars, valvars, lexvars>>

\* NewProceduralFresnel(format, width, height, mip, a, b)
MakeFresnel ==
    /\ pc = "idle"
    /\ \E f \in Formats, d \in Dims, a \in Floats, b \in Floats :
          /\ tin' = [NoTin EXCEPT
                       !.op = "NewProceduralFresnel", !.format = f, !.dims = d,
                       !.fn = <<"f","r","e","s","n","e","l">>, !.vals = <<a, b>>, !.hasB = TRUE]
          /\ tr' = NewProceduralFresnel(f, d[1], d[2], d[3], a, b)
    /\ pc' = "texref"
    /\ UNCHANGED <<docvars, valvars, lexvars>>

\* NewProceduralFresnelGlass(format, width, height, mip, a, b, hasB)
MakeFresnelGlass ==
    /\ pc = "idle"
    /\ \E f \in Formats, d \in Dims, a \in Floats, b \in Floats, hasB \in BOOLEAN :
          /\ tin' = [NoTin EXCEPT
                       !.op = "NewProceduralFresnelGlass", !.format = f, !.dims = d,
                       !.fn = <<"f","r","e","s","n","e","l","G","l","a","s","s">>, !.vals = <<a, b>>, !.hasB = hasB]
          /\ tr' = NewProceduralFresnelGlass(f, d[1], d[2], d[3], a, b, hasB)
    /\ pc' = "texref"
    /\ UNCHANGED <<docvars, valvars, lexvars>>

\* NewProceduralIrradiance(format, width, height, mip, value)
MakeIrradiance ==
    /\ pc = "idle"
    /\ \E f \in Formats, d \in Dims, v \in Floats :
          /\ tin' = [NoTin EXCEPT
                       !.op = "NewProceduralIrradiance", !.format = f, !.dims = d,
                       !.fn = <<"i","r","r","a","d","i","a","n","c","e">>, !.vals = <<v>>]
          /\ tr' = NewProceduralIrradiance(f, d[1], d[2], d[3], v)
    /\ pc' = "texref"
    /\ UNCHANGED <<docvars, valvars, lexvars>>

\* a Material built through the exported types
Build ==
    /\ pc = "idle"
    /\ \E k \in 1..Len(Built) : mat' = <<Built[k]>>
    /\ pc' = "built"
    /\ UNCHANGED <<doc, mut, src, opt, res, out, res2, out2, tin, tr, vin, issues, lin, lp, calls>>

\* Format(m, nil) of a Material that was built or returned by Parse
FormatIt ==
    /\ pc \in {"parsed", "built"}
    /\ mat # <<>>
    /\ out' = Format(mat[1], <<>>)
    /\ pc' = "formatted"
    /\ UNCHANGED <<doc, mut, src, opt, res, mat, res2, out2, tin, tr, vin, issues, lin, lp, calls>>

\* Parse(out, nil)
Reparse ==
    /\ pc = "formatted"
    /\ res2' = Decode([pad |-> 0, body |-> out], DefaultParseOptions)
    /\ pc' = "reparsed"
    /\ UNCHANGED <<doc, mut, src, opt, res, mat, out, out2, tin, tr, vin, issues, lin, lp, calls>>

\* Parse(out, &ParseOptions{DisableCaseInsensitive: true})
ReparseCaseSensitive ==
    /\ pc = "formatted"
    /\ res2' = Decode([pad |-> 0, body |-> out],
                      [DefaultParseOptions EXCEPT !.DisableCaseInsensitive = TRUE])
    /\ pc' = "recased"
    /\ UNCHANGED <<doc, mut, src, opt, res, mat, out, out2, tin, tr, vin, issues, lin, lp, calls>>

\* Format(m2, nil) of the re-parsed Material
Reformat ==
    /\ pc = "reparsed"
    /\ res2.m # <<>>
    /\ out2' = Format(res2.m[1], <<>>)
    /\ pc' = "done"
    /\ UNCHANGED <<doc, mut, src, opt, res, mat, out, res2, tin, tr, vin, issues, lin, lp, calls>>

\* Validate(m, opt) of a Material
CallValidate ==
    /\ pc = "idle"
    /\ \E top \in DOMAIN TopPool, sl \in StageLists, c \in DOMAIN OptCases :
        /\ pc = "idle"
        /\ pc' = "validated"
        /\ vin' = [op |-> "Validate", m |-> <<MaterialOf(top, sl)>>,
                   opt |-> OptCases[c].opt, texOpt |-> <<>>, files |-> OptCases[c].files]
        /\ issues' = Validate(vin'.m, vin'.opt, vin'.files)
        /\ UNCHANGED <<docvars, texvars, lexvars>>

\* ValidateWithTextureOptions(m, opt, texOpt) of a Material
CallValidateWithTextureOptions ==
    /\ pc = "idle"
    /\ \E top \in DOMAIN TopPool, sl \in StageLists, c \in {1, 2}, t \in TexOptCases :
        /\ Len(sl) <= 2
        /\ pc = "idle"
        /\ pc' = "validated"
        /\ vin' = [op |-> "ValidateWithTextureOptions", m |-> <<MaterialOf(top, sl)>>,
                   opt |-> OptCases[c].opt, texOpt |-> t, files |-> OptCases[c].files]
        /\ issues' = ValidateWithTextureOptions(vin'.m, vin'.opt, vin'.texOpt, vin'.files)
        /\ UNCHANGED <<docvars, texvars, lexvars>>

\* either function handed a nil *Material
CallValidateNil ==
    /\ pc = "idle"
    /\ \E op \in {"Validate", "ValidateWithTextureOptions"}, c \in DOMAIN OptCases,
       t \in TexOptCases :
        /\ op = "Validate" => t = <<>>
        /\ pc = "idle"
        /\ pc' = "validated"
        /\ vin' = [op |-> op, m |-> <<>>, opt |-> OptCases[c].opt, texOpt |-> t,
                   files |-> OptCases[c].files]
        /\ issues' = IF op = "Validate" THEN Validate(<<>>, vin'.opt, vin'.files)
                     ELSE ValidateWithTextureOptions(<<>>, vin'.opt, vin'.texOpt, vin'.files)
        /\ UNCHANGED <<docvars, texvars, lexvars>>

\* the calls of parser.next from p on, up to the end of the text or an
\* error: .calls is the list of [op, tok, err, lexed], lexed the number of
\* calls of lexer.next made so far
RECURSIVE NextAll(_, _)
NextAll(p, acc) ==
    With([r \in {next(p)} |->
    With([cs \in {Append(acc, [op |-> "next", tok |-> r.tok, err |-> r.err,
                                 lexed |-> r.p.i - 1])} |->
    IF r.err # NoErr \/ r.tok.Type = "tokEOF" THEN [p |-> r.p, calls |-> cs]
    ELSE NextAll(r.p, cs)])])

\* a caller reads all the tokens of text
LexAll(kind, text, o) ==
    /\ pc = "idle"
    /\ pc' = "lexed"
    /\ lin' = [op |-> kind, text |-> text, opt |-> o]
    /\ lp' = NextAll(newParser(text, o), <<>>).p
    /\ calls' = NextAll(newParser(text, o), <<>>).calls
    /\ UNCHANGED <<docvars, texvars, valvars>>

\* the lexer on a word that starts like a number
LexWord ==
    /\ pc = "idle"
    /\ \E w \in Words, t \in WordTails : LexAll("word", w \o t, DefaultParseOptions)

\* the lexer on a spelling of the class keyword
LexKeyword ==
    /\ pc = "idle"
    /\ \E w \in Keywords, t \in WordTails,
       o \in {DefaultParseOptions, [DefaultParseOptions EXCEPT !.DisableCaseInsensitive = TRUE]} :
        LexAll("keyword", w \o t, o)

\* newParser on a text the caller then walks through
StartScan ==
    /\ pc = "idle"
    /\ \E text \in ScanTexts :
        /\ pc = "idle"
        /\ pc' = "scanning"
        /\ lin' = [op |-> "scan", text |-> text, opt |-> DefaultParseOptions]
        /\ lp' = newParser(text, DefaultParseOptions)
        /\ calls' = <<>>
        /\ UNCHANGED <<docvars, texvars, valvars>>

\* the caller goes on while no call has failed
CanCall ==
    /\ pc = "scanning"
    /\ Len(calls) < MaxCalls
    /\ calls # <<>> => calls[Len(calls)].err = NoErr

\* parser.peek
Peek ==
    /\ CanCall
    /\ lp' = peek(lp).p
    /\ calls' = Append(calls, [op |-> "peek", tok |-> peek(lp).tok, err |-> peek(lp).err,
                               lexed |-> lp'.i - 1])
    /\ UNCHANGED <<pc, lin, docvars, texvars, valvars>>

\* parser.next
NextToken ==
    /\ CanCall
    /\ lp' = next(lp).p
    /\ calls' = Append(calls, [op |-> "next", tok |-> next(lp).tok, err |-> next(lp).err,
                               lexed |-> lp'.i - 1])
    /\ UNCHANGED <<pc, lin, docvars, texvars, valvars>>

Next ==
    \/ LexWord \/ LexKeyword \/ StartScan \/ Peek \/ NextToken
    \/ ParseTexture \/ ParseFunction
    \/ MakeProcedural \/ MakeColor \/ MakeFresnel \/ MakeFresnelGlass \/ MakeIrradiance
    \/ CallValidate \/ CallValidateWithTextureOptions \/ CallValidateNil
    \/ Build \/ LoadUV \/ Load \/ LoadDamaged \/ LoadBinary \/ FormatIt \/ Reparse \/ ReparseCaseSensitive \/ Reformat

Spec == Init /\ [][Next]_vars

(***************************************************************************)
(* Properties.                                                             *)
(***************************************************************************)
\* the extras of every scope of a Material: top level, stages, texgens
\* (nested classes carry theirs in their bodies)
ExtrasOf(m) ==
    [top     |-> m.extras,
     stages  |-> [i \in DOMAIN m.Stages |-> m.Stages[i].extras],
     texgens |-> [i \in DOMAIN m.TexGens |-> m.TexGens[i].extras]]

\* C1: round trip.  Parse(Format(m)) succeeds and returns a Material equal
\* to m field for field, for every m built or returned by Parse.
C1_RoundTrip ==
    pc \in {"reparsed", "done"} => res2.err = NoErr /\ res2.m = mat

\* C2: unknown fields survive.  The extras of every scope of a parsed
\* document are emitted by Format with the same name, array flag, base and
\* value and in the same order: parsing the output gives the same extras.
C2_UnknownFieldsKept ==
    (pc \in {"reparsed", "done"} /\ doc # <<>> /\ res.err = NoErr)
        => res2.m # <<>> /\ ExtrasOf(res2.m[1]) = ExtrasOf(mat[1])

\* C3: canonical stability.  Format(Parse(Format(m))) exists and is equal
\* to Format(m) character for character.
C3_CanonicalStable ==
    /\ pc = "reparsed" => res2.err = NoErr
    /\ pc = "done" => out2 = out

\* C4: binary rejection.  An input with a NUL among its first 4096 bytes is
\* answered with ErrBinaryRVMAT and no Material, before the lexer is asked
\* for a token.
C4_BinaryRejected ==
    (pc = "parsed" /\ mut.kind = "nul" /\ src.pad + mut.k <= 4096)
        => res.err = ErrBinaryRVMAT /\ res.m = <<>> /\ res.lexed = 0

\* C4 happens: the NUL is the 4096th byte of an input
C4_Witness ==
    /\ pc = "parsed" /\ mut.kind = "nul" /\ src.pad + mut.k = 4096
    /\ src.body[mut.k] = NUL
    /\ res.err = ErrBinaryRVMAT

\* C5: no partial document.  Whenever Parse returns an error, the Material
\* it returns is nil.
C5_NoPartialDocument ==
    /\ pc # "idle" /\ res.err # NoErr => res.m = <<>>
    /\ pc \in {"reparsed", "done"} /\ res2.err # NoErr => res2.m = <<>>

\* C5 happens: the error comes after a whole assignment was parsed
C5_Witness ==
    /\ pc = "parsed" /\ mut.kind = "at" /\ mut.base = 1 /\ mut.k > 11
    /\ res.err.kind = "ErrLex" /\ res.lexed > 9 /\ res.m = <<>>

\* C6: lexer errors propagate.  When the lexer returned an error to the
\* parser, Parse returns that error.
C6_LexErrorReturned ==
    (pc = "parsed" /\ res.lexerr # NoErr) => res.err = res.lexerr

\* the item's name is one the parser takes for its known key under opt
Recognised(it) == ~opt.DisableCaseInsensitive \/ it.name = it.key

\* C7: relaxed numbers.  With relaxed numbers a document parses and a
\* numeric array (a top-level color, a uvTransform vector) keeps one entry
\* per source element, 0 where the element is no number; with
\* DisableRelaxedNumbers such an element makes Parse fail with ErrParse.
C7_RelaxedNumbers ==
    (pc = "parsed" /\ doc # <<>>) =>
        /\ ~opt.DisableRelaxedNumbers => res.err = NoErr
        /\ \A i \in DOMAIN doc :
             LET it == Pool[doc[i]]
             IN  /\ ( /\ it.kind \in {"color", "stage"} /\ Recognised(it)
                      /\ it.bad # {} /\ opt.DisableRelaxedNumbers )
                        => res.err.kind = "ErrParse"
                 /\ ( /\ it.kind = "color" /\ Recognised(it) /\ res.err = NoErr
                      /\ \A j \in (i + 1)..Len(doc) : Pool[doc[j]].field # it.field )
                        => /\ Len(res.m[1][it.field]) = it.n
                           /\ \A j \in it.bad : res.m[1][it.field][j] = Zero
                 /\ (it.kind = "stage" /\ it.bad # {} /\ res.err = NoErr)
                        => \A k \in DOMAIN res.m[1].Stages :
                             LET st == res.m[1].Stages[k]
                             IN  st.Name = it.name =>
                                   /\ st.UVTransform # <<>>
                                   /\ Len(st.UVTransform[1].Up) = it.n
                                   /\ \A j \in it.bad : st.UVTransform[1].Up[j] = Zero

\* C7 happens: diffuse with "1.25.1" as its third element, relaxed
C7_Witness ==
    /\ pc = "parsed" /\ doc # <<>> /\ Pool[doc[1]].field = "Diffuse" /\ Len(doc) = 1
    /\ ~opt.DisableRelaxedNumbers /\ ~opt.DisableCaseInsensitive
    /\ res.err = NoErr
    /\ Len(res.m[1].Diffuse) = 4
    /\ res.m[1].Diffuse[3] = Zero /\ res.m[1].Diffuse[2] # Zero

\* C8: case-insensitivity.  With it enabled a known name in any letter case
\* fills its typed field; with DisableCaseInsensitive a name that differs
\* in case from the key leaves the field empty and is kept as an extra of
\* its scope (shown at the top level and for uvSource in a stage).
C8_CaseToggle ==
    (pc = "parsed" /\ doc # <<>> /\ res.err = NoErr) =>
        \A i \in DOMAIN doc :
            LET it == Pool[doc[i]]
                m  == res.m[1]
            IN  /\ (it.kind \in {"color", "scalar"} /\ ~opt.DisableCaseInsensitive)
                       => m[it.field] # <<>>
                /\ ( /\ it.kind \in {"color", "scalar"} /\ opt.DisableCaseInsensitive
                     /\ it.name # it.key )
                       => /\ (\A j \in DOMAIN doc :
                                 Pool[doc[j]].field = it.field
                                     => Pool[doc[j]].name # Pool[doc[j]].key)
                              => m[it.field] = <<>>
                          /\ \E k \in DOMAIN m.extras :
                                /\ m.extras[k].type = "assignNode"
                                /\ m.extras[k].Name = it.name
                                /\ m.extras[k].IsArray = (it.kind = "color")
                /\ it.name = <<"s","t","a","g","e","1">>
                       => \A k \in DOMAIN m.Stages :
                            IF ~opt.DisableCaseInsensitive
                            THEN m.Stages[k].Name = it.name => m.Stages[k].UVSource = <<"t","e","x">>
                            ELSE m.Stages[k].Name = it.name =>
                                   /\ m.Stages[k].UVSource = <<>>
                                   /\ \E e \in DOMAIN m.Stages[k].extras :
                                         m.Stages[k].extras[e].Name = <<"u","v","S","o","u","r","c","e">>

\* C8 happens: DiFfUse[] parsed with DisableCaseInsensitive
C8_Witness ==
    /\ pc = "parsed" /\ Len(doc) = 1 /\ Pool[doc[1]].name = <<"D","i","F","f","U","s","e">>
    /\ opt.DisableCaseInsensitive
    /\ res.err = NoErr
    /\ res.m[1].Diffuse = <<>>
    /\ Len(res.m[1].extras) = 1 /\ res.m[1].extras[1].Name = <<"D","i","F","f","U","s","e">>

\* the tokens lexer.next returns for a text, up to its end or first error
RECURSIVE TokensFrom(_, _, _)
TokensFrom(text, i, o) ==
    LET r == lexNext(text, i, o)
    IN  IF r.err # NoErr THEN << [Type |-> "error", Lit |-> <<>>] >>
        ELSE IF r.tok.Type = "tokEOF" THEN <<>>
        ELSE << [Type |-> r.tok.Type, Lit |-> r.tok.Lit] >> \o TokensFrom(text, r.next, o)

\* the positions between the tokens of a text: where a token starts, and
\* the end of the text
RECURSIVE GapsFrom(_, _)
GapsFrom(text, i) ==
    LET r == lexNext(text, i, DefaultParseOptions)
    IN  IF r.err # NoErr \/ r.tok.Type = "tokEOF" THEN {Len(text) + 1}
        ELSE {r.tok.at} \cup GapsFrom(text, r.next)

\* C9: comments.  With comments enabled a // or /* */ comment between two
\* tokens changes neither the token sequence nor what Parse returns; with
\* DisableComments a '/' between two tokens makes Parse fail.
C9_Comments ==
    ( /\ pc = "parsed" /\ mut.kind \in {"block", "line", "slash"}
      /\ mut.k \in GapsFrom(Bases[mut.base], 1) ) =>
        IF opt.DisableComments THEN res.err # NoErr
        ELSE mut.kind # "slash" =>
               LET base == [pad |-> 0, body |-> Bases[mut.base]]
               IN  /\ TokensFrom(src.body, 1, opt) = TokensFrom(base.body, 1, opt)
                   /\ res.err = Decode(base, opt).err
                   /\ res.m = Decode(base, opt).m

\* C9 happens: a block comment inside a stage class, comments enabled
C9_Witness ==
    /\ pc = "parsed" /\ mut.kind = "block" /\ mut.base = 2 /\ mut.k > 20
    /\ mut.k \in GapsFrom(Bases[mut.base], 1)
    /\ ~opt.DisableComments
    /\ res.err = NoErr /\ Len(res.m[1].Stages) = 1

\* the characters of names
NameChars == Lower \cup Upper \cup Digits \cup {"_"}

\* the starts of the lines of a text that begin an item at column 0
ItemStarts(t) ==
    {s \in {1} \cup {k + 1 : k \in 1..(Len(t) - 1)} :
        /\ s <= Len(t)
        /\ s = 1 \/ t[s - 1] = NL
        /\ t[s] \in NameChars}

\* what the line starting at s declares: a class or an assignment, and its name
HeadAt(t, s) ==
    IF HasPrefix(SubSeq(t, s, Len(t)), <<"c","l","a","s","s"," ">>)
    THEN [class |-> TRUE, name |-> SubSeq(t, s + 6, SpanEnd(t, s + 6, NameChars) - 1)]
    ELSE [class |-> FALSE, name |-> SubSeq(t, s, SpanEnd(t, s, NameChars) - 1)]

\* the heads of the top-level items of a text, in the order of the text
RECURSIVE HeadsOf(_, _)
HeadsOf(t, S) ==
    IF S = {} THEN <<>>
    ELSE LET s == CHOOSE x \in S : \A y \in S : x <= y
         IN  <<HeadAt(t, s)>> \o HeadsOf(t, S \ {s})

Assign(name) == [class |-> FALSE, name |-> name]

\* the order the claim fixes for the items of a Material
EmissionOrder(m) ==
       (IF m.Ambient # <<>> THEN <<Assign(<<"a","m","b","i","e","n","t">>)>> ELSE <<>>)
    \o (IF m.Diffuse # <<>> THEN <<Assign(<<"d","i","f","f","u","s","e">>)>> ELSE <<>>)
    \o (IF m.ForcedDiffuse # <<>> THEN <<Assign(<<"f","o","r","c","e","d","D","i","f","f","u","s","e">>)>> ELSE <<>>)
    \o (IF m.Emmisive # <<>> THEN <<Assign(<<"e","m","m","i","s","i","v","e">>)>> ELSE <<>>)
    \o (IF m.Specular # <<>> THEN <<Assign(<<"s","p","e","c","u","l","a","r">>)>> ELSE <<>>)
    \o (IF m.SpecularPower # <<>> THEN <<Assign(<<"s","p","e","c","u","l","a","r","P","o","w","e","r">>)>> ELSE <<>>)
    \o (IF m.PixelShaderID # <<>> THEN <<Assign(<<"P","i","x","e","l","S","h","a","d","e","r","I","D">>)>> ELSE <<>>)
    \o (IF m.VertexShaderID # <<>> THEN <<Assign(<<"V","e","r","t","e","x","S","h","a","d","e","r","I","D">>)>> ELSE <<>>)
    \o [k \in DOMAIN m.TexGens |-> [class |-> TRUE, name |-> m.TexGens[k].Name]]
    \o [k \in DOMAIN m.Stages |-> [class |-> TRUE, name |-> m.Stages[k].Name]]
    \o [k \in DOMAIN m.extras |->
           [class |-> m.extras[k].type = "classNode", name |-> m.extras[k].Name]]

\* C10: fixed emission order.  The top-level items of Format's output are
\* the colors ambient, diffuse, forcedDiffuse, emmisive, specular, then
\* specularPower, PixelShaderID, VertexShaderID, then the TexGens, the
\* Stages and the extras in stored order, whatever the source order was.
C10_EmissionOrder ==
    pc \in {"formatted", "reparsed", "done"}
        => HeadsOf(out, ItemStarts(out)) = EmissionOrder(mat[1])

\* C10 happens: the source has a stage before a color array
C10_Witness ==
    /\ pc = "formatted" /\ Len(doc) = 2
    /\ Pool[doc[1]].kind = "stage" /\ Pool[doc[2]].kind = "color"
    /\ opt = DefaultParseOptions
    /\ Len(HeadsOf(out, ItemStarts(out))) = 2
    /\ HeadsOf(out, ItemStarts(out))[2].class


\* text w occurs in text t
Contains(t, w) ==
    \E i \in 1..(Len(t) - Len(w) + 1) : SubSeq(t, i, i + Len(w) - 1) = w

\* the n-th top-level item of a text, from its first line to the line
\* before the next item
ItemText(t, n) ==
    LET S == ItemStarts(t)
        s == CHOOSE x \in S : Cardinality({y \in S : y < x}) = n - 1
        later == {y \in S : y > s}
        e == IF later = {} THEN Len(t) + 1
             ELSE CHOOSE x \in later : \A y \in later : x <= y
    IN  SubSeq(t, s, e - 1)

\* the block Format wrote for stage k of m in text t
StageText(t, m, k) ==
    ItemText(t, Len(EmissionOrder(m)) - Len(m.extras) - Len(m.Stages) + k)

\* the starts of the entries a class block holds directly: the lines
\* indented by one unit
InnerStarts(b) ==
    {s \in (Len(DefaultIndent) + 2)..Len(b) :
        /\ b[s - Len(DefaultIndent) - 1] = NL
        /\ SubSeq(b, s - Len(DefaultIndent), s - 1) = DefaultIndent
        /\ b[s] \in NameChars}

\* a uvSource assignment or a uvTransform class
IsUV(h) ==
    \/ ~h.class /\ h.name = <<"u","v","S","o","u","r","c","e">>
    \/ h.class /\ h.name = <<"u","v","T","r","a","n","s","f","o","r","m">>

\* the heads of the entries kept in a block's extras
ExtraHeads(extras) ==
    [k \in DOMAIN extras |->
        [class |-> extras[k].type = "classNode", name |-> extras[k].Name]]

\* C11 as stated: the block of a stage with a TexGen holds the texGen
\* assignment and neither "uvSource=" nor "class uvTransform"; the block of
\* a stage without one holds both when the stage has them.
C11_NoUVText ==
    pc \in {"formatted", "reparsed", "done"} =>
        \A k \in DOMAIN mat[1].Stages :
            LET s == mat[1].Stages[k]
                b == StageText(out, mat[1], k)
            IN  IF s.TexGen # <<>>
                THEN /\ Contains(b, <<"t","e","x","G","e","n","=">>)
                     /\ ~Contains(b, <<"u","v","S","o","u","r","c","e","=">>)
                     /\ ~Contains(b, <<"c","l","a","s","s"," ","u","v","T","r","a","n","s","f","o","r","m">>)
                ELSE /\ s.UVSource # <<>> => Contains(b, <<"u","v","S","o","u","r","c","e","=">>)
                     /\ s.UVTransform # <<>> => Contains(b, <<"c","l","a","s","s"," ","u","v","T","r","a","n","s","f","o","r","m">>)

\* C11: TexGen suppresses the UV fields on write.  The block of a stage
\* with a TexGen holds the texGen assignment, and the only uvSource
\* assignments and uvTransform classes among its entries are those kept in
\* the stage's extras: UVSource and UVTransform are not written.  The block
\* of a stage without a TexGen holds both when the stage has them, before
\* those of the extras.
C11_TexGenSuppressesUV ==
    pc \in {"formatted", "reparsed", "done"} =>
        \A k \in DOMAIN mat[1].Stages :
            LET s == mat[1].Stages[k]
                b == StageText(out, mat[1], k)
                uv == SelectSeq(HeadsOf(b, InnerStarts(b)), IsUV)
                kept == SelectSeq(ExtraHeads(s.extras), IsUV)
            IN  IF s.TexGen # <<>>
                THEN /\ Contains(b, <<"t","e","x","G","e","n","=">>)
                     /\ uv = kept
                ELSE uv = (IF s.UVSource # <<>> THEN <<Assign(<<"u","v","S","o","u","r","c","e">>)>> ELSE <<>>)
                          \o (IF s.UVTransform # <<>>
                              THEN << [class |-> TRUE, name |-> <<"u","v","T","r","a","n","s","f","o","r","m">>] >> ELSE <<>>)
                          \o kept

\* C11 happens: a built stage with TexGen, UVSource and UVTransform all set
C11_Witness ==
    /\ pc = "formatted" /\ Len(mat[1].Stages) = 3
    /\ mat[1].Stages[1].TexGen # <<>>
    /\ mat[1].Stages[1].UVSource # <<>> /\ mat[1].Stages[1].UVTransform # <<>>
    /\ Contains(StageText(out, mat[1], 1), <<"t","e","x","G","e","n","=",Q,"0",Q,";">>)
    /\ ~Contains(StageText(out, mat[1], 1), <<"u","v","S">>)
    /\ Contains(StageText(out, mat[1], 3), <<"u","v","S","o","u","r","c","e","=",Q,"t","e","x","1",Q,";">>)


\* assignments named uvSource, in any letter case, among kept entries
StrayUVSource(extras) ==
    {k \in DOMAIN extras :
        /\ extras[k].type = "assignNode"
        /\ EqualFold(extras[k].Name, <<"u","v","S","o","u","r","c","e">>)}

\* classes named uvTransform without a base among kept entries
StrayUVTransform(extras) ==
    {k \in DOMAIN extras :
        /\ extras[k].type = "classNode"
        /\ EqualFold(extras[k].Name, <<"u","v","T","r","a","n","s","f","o","r","m">>)
        /\ extras[k].Base = <<>>}

\* the stages of the pool that carry texGen with uvSource
StrayStages == {<<"S","t","a","g","e","2">>, <<"s","t","a","g","e","3">>}

\* C12 as stated: in a parsed stage with texGen, the uvSource beside it is
\* kept in the stage's extras and Format writes it inside the stage block.
C12_StrayInExtras ==
    (pc \in {"formatted", "reparsed", "done"} /\ doc # <<>>) =>
        \A k \in DOMAIN mat[1].Stages :
            LET st == mat[1].Stages[k]
            IN  (st.Name \in StrayStages /\ st.TexGen # <<>>) =>
                    /\ StrayUVSource(st.extras) # {}
                    /\ Contains(StageText(out, mat[1], k), <<"u","v","S","o","u","r","c","e","=">>)

\* C12: stray UV wiring in a texGen-driven stage.  When Parse takes the
\* texGen, the uvSource and the uvTransform class of a Stage block for its
\* known entries, the uvSource and the uvTransform are stored in the
\* Stage's UVSource and UVTransform, not in its extras, and Format writes
\* neither; a uvSource that Parse does not take for the known key (other
\* letter case under DisableCaseInsensitive) is kept in the extras and
\* written, also beside a texgen.
C12_StrayInFields ==
    (pc \in {"formatted", "reparsed", "done"} /\ doc # <<>>) =>
        \A k \in DOMAIN mat[1].Stages :
            LET st == mat[1].Stages[k]
                b == StageText(out, mat[1], k)
            IN  st.Name \in StrayStages =>
                  IF ~opt.DisableCaseInsensitive
                  THEN /\ st.TexGen # <<>> /\ st.UVSource # <<>>
                       /\ st.Name = <<"s","t","a","g","e","3">> => st.UVTransform # <<>>
                       /\ StrayUVSource(st.extras) = {}
                       /\ StrayUVTransform(st.extras) = {}
                       /\ ~Contains(b, <<"u","v","S","o","u","r","c","e">>)
                       /\ ~Contains(b, <<"p","o","s","[","]","=">>)
                       /\ Contains(b, <<"t","e","x","G","e","n","=">>)
                  ELSE /\ st.TexGen # <<>> /\ st.UVSource = <<>>
                       /\ StrayUVSource(st.extras) # {}
                       /\ Contains(b, <<"u","v","S","o","u","r","c","e","=">>)

\* C12 happens: stage3 with texgen, uvSource and a uvTransform class, parsed
\* with the default options and formatted
C12_Witness ==
    /\ pc = "formatted" /\ Len(doc) = 1 /\ Pool[doc[1]].name = <<"s","t","a","g","e","3">>
    /\ opt = DefaultParseOptions
    /\ mat[1].Stages[1].UVSource = <<"t","e","x">>
    /\ mat[1].Stages[1].UVTransform # <<>>
    /\ Len(mat[1].Stages[1].extras) = 1
    /\ ~Contains(out, <<"u","v","S","o","u","r","c","e">>)


\* C13: canonical output does not depend on the formatting of the input.
\* A text that differs from a base text only by white space or a comment
\* put between two tokens is accepted as the base text is, Format of its
\* Material is Format of the base text's Material character for character,
\* and every output that is not empty ends with a newline.
C13_FormattingIndependent ==
    /\ ( /\ pc \in {"parsed", "formatted"}
         /\ mut.kind \in {"block", "line", "space"}
         /\ opt.DisableComments => mut.kind = "space"
         /\ mut.k \in GapsFrom(Bases[mut.base], 1) ) =>
           LET r == Decode([pad |-> 0, body |-> Bases[mut.base]], opt)
           IN  /\ r.err = NoErr /\ res.err = NoErr
               /\ pc = "formatted" => out = Format(r.m[1], <<>>)
    /\ (pc \in {"formatted", "reparsed", "done"} /\ out # <<>>) => out[Len(out)] = NL

\* C13 happens: a line comment between two tokens of a stage class
C13_Witness ==
    /\ pc = "formatted" /\ mut.kind = "line" /\ mut.base = 2 /\ mut.k > 20
    /\ mut.k \in GapsFrom(Bases[mut.base], 1)
    /\ Contains(src.body, <<"/", "/", "c", NL>>)
    /\ out # <<>> /\ ~Contains(out, <<"/", "/">>)
    /\ out = Format(Decode([pad |-> 0, body |-> Bases[2]], opt).m[1], <<>>)


\* a base-10 integer: an optional sign and at least one digit
IsInteger(t) ==
    /\ t # <<>>
    /\ LET d == IF t[1] \in {"+", "-"} THEN Tail(t) ELSE t
       IN  d # <<>> /\ \A k \in DOMAIN d : d[k] \in Digits

\* the i-th of the fields the commas of a text separate
FieldOf(head, i) ==
    LET commas == {k \in 1..Len(head) : head[k] = ","}
        Nth(j) == CHOOSE k \in commas : Cardinality({x \in commas : x < k}) = j - 1
        from == IF i = 1 THEN 1 ELSE Nth(i - 1) + 1
        to == IF Cardinality(commas) >= i THEN Nth(i) - 1 ELSE Len(head)
    IN  SubSeq(head, from, to)

\* what the claim asks of a procedural reference n (n starts with "#("):
\* the header up to the first ")" has at least 4 fields, the 2nd to 4th are
\* integers, and what follows the header is name(args)
WellFormed(n) ==
    LET closes == {k \in 1..Len(n) : n[k] = ")"}
    IN  /\ closes # {}
        /\ LET c == CHOOSE k \in closes : \A j \in closes : k <= j
               head == SubSeq(n, 3, c - 1)
               rem == TrimSpace(SubSeq(n, c + 1, Len(n)))
               opens == {k \in 1..Len(rem) : rem[k] = "("}
           IN  /\ Cardinality({k \in 1..Len(head) : head[k] = ","}) >= 3
               /\ \A i \in 2..4 : IsInteger(TrimSpace(FieldOf(head, i)))
               /\ rem # <<>>
               /\ opens # {}
               /\ LET o == CHOOSE k \in opens : \A j \in opens : k <= j
                  IN  o > 1 /\ \E k \in (o + 1)..Len(rem) : rem[k] = ")"

\* C14: procedural parsing fails softly.  ParseTextureRef returns a
\* TextureRef for every text; when the normalized text starts with "#(" the
\* Kind is procedural and Raw is the normalized text, and ParsedOK is true
\* exactly when the text is well formed (WellFormed); otherwise ParsedOK is
\* false and Procedural is nil.
C14_SoftFailure ==
    (pc = "texref" /\ tin.op = "ParseTextureRef") =>
        LET n == NormalizeTextureRaw(tin.raw)
        IN  /\ tr.Raw = n
            /\ tr.Kind = (IF HasPrefix(n, <<"#", "(">>) THEN "procedural" ELSE "path")
            /\ tr.ParsedOK = (HasPrefix(n, <<"#", "(">>) /\ WellFormed(n))
            /\ tr.ParsedOK = (tr.Procedural # <<>>)

\* C14 happens: the height of the header is no integer
C14_Witness ==
    /\ pc = "texref"
    /\ tin.raw = <<"t","e","x","t","u","r","e","=",Q,"#","(","a","r","g","b",",","8",",","x",",","3",")","c","o","l","o","r","(","1",",","1",",","1",",","1",")",Q,";">>
    /\ tr.Kind = "procedural" /\ tr.Raw = <<"#","(","a","r","g","b",",","8",",","x",",","3",")","c","o","l","o","r","(","1",",","1",",","1",",","1",")">>
    /\ ~tr.ParsedOK /\ tr.Procedural = <<>>


\* C15: typed decoration.  For a function call behind a good header,
\* ParsedOK is true and Func and Args are the name and the arguments as
\* written (trimmed); Color is set exactly when the name is color in any
\* letter case with 4 or 5 arguments of which the first four are numbers
\* (the 5th is the tag), Fresnel exactly when the name is fresnel or
\* fresnelglass with 1 or 2 numbers (B is 0 without the 2nd), Irradiance
\* exactly when the name is irradiance with 1 number; no other payload is
\* set.
C15_TypedDecoration ==
    (pc = "texref" /\ tin.op = "ParseTextureRef" /\ tin.fn # <<>>) =>
        LET given == [k \in DOMAIN tin.args |-> ArgPool[tin.args[k]]]
            blank == \A k \in DOMAIN given : given[k].t = <<>> /\ Len(given) <= 1
            args == IF blank THEN <<>> ELSE given
            n == Len(args)
            texts == [k \in 1..n |-> TrimSpace(args[k].t)]
            nums(k) == \A i \in 1..k : args[i].isNum
            fn == ToLower(tin.fn)
            isColor == fn = <<"c","o","l","o","r">> /\ n \in {4, 5} /\ nums(4)
            isFresnel == fn \in {<<"f","r","e","s","n","e","l">>, <<"f","r","e","s","n","e","l","g","l","a","s","s">>} /\ n \in {1, 2} /\ nums(n)
            isIrradiance == fn = <<"i","r","r","a","d","i","a","n","c","e">> /\ n = 1 /\ nums(1)
        IN  /\ tr.ParsedOK /\ tr.Procedural # <<>>
            /\ tr.Procedural[1].Func = tin.fn
            /\ tr.Procedural[1].Args = texts
            /\ tr.Procedural[1].Color =
                 (IF isColor
                  THEN << [R |-> args[1].v, G |-> args[2].v, B |-> args[3].v, A |-> args[4].v,
                           Tag |-> IF n = 5 THEN texts[5] ELSE <<>>] >>
                  ELSE <<>>)
            /\ tr.Procedural[1].Fresnel =
                 (IF isFresnel
                  THEN << [A |-> args[1].v, B |-> IF n = 2 THEN args[2].v ELSE Zero] >>
                  ELSE <<>>)
            /\ tr.Procedural[1].Irradiance =
                 (IF isIrradiance THEN << [Value |-> args[1].v] >> ELSE <<>>)

\* C15 happens: COLOR with four numbers and a tag
C15_Witness ==
    /\ pc = "texref"
    /\ tin.raw = <<"#","(","a","r","g","b",",","8",",","8",",","3",")","C","O","L","O","R","(","0",".","5",","," ","-","1","2","e","-","1"," ",",","0",".","5",",","0",".","5",",","C","O",")">>
    /\ tr.ParsedOK
    /\ tr.Procedural[1].Color # <<>>
    /\ tr.Procedural[1].Color[1].Tag = <<"C","O">>
    /\ tr.Procedural[1].Color[1].G.neg
    /\ tr.Procedural[1].Fresnel = <<>>


\* the payload a construction helper is to give for its inputs
PayloadOf(t) ==
    [Color |-> IF t.op = "NewProceduralColor"
               THEN << [R |-> t.vals[1], G |-> t.vals[2], B |-> t.vals[3],
                        A |-> t.vals[4], Tag |-> t.tag] >>
               ELSE <<>>,
     Fresnel |-> IF t.op \in {"NewProceduralFresnel", "NewProceduralFresnelGlass"}
                 THEN << [A |-> t.vals[1], B |-> IF t.hasB THEN t.vals[2] ELSE Zero] >>
                 ELSE <<>>,
     Irradiance |-> IF t.op = "NewProceduralIrradiance"
                    THEN << [Value |-> t.vals[1]] >> ELSE <<>>]

\* the typed helpers
TypedHelpers ==
    {"NewProceduralColor", "NewProceduralFresnel", "NewProceduralFresnelGlass",
     "NewProceduralIrradiance"}

\* C16: the construction helpers round-trip through the texture parser.
\* Whatever format, width, height, mip and argument values a helper is
\* handed, the TextureRef it returns has ParsedOK true, and Format, Width,
\* Height, Mip, Func and the typed payload are the inputs.
C16_HelpersRoundTrip ==
    (pc = "texref" /\ tin.op # "ParseTextureRef") =>
        /\ tr.ParsedOK /\ tr.Procedural # <<>>
        /\ tr.Procedural[1].Format = tin.format
        /\ tr.Procedural[1].Width = tin.dims[1]
        /\ tr.Procedural[1].Height = tin.dims[2]
        /\ tr.Procedural[1].Mip = tin.dims[3]
        /\ tr.Procedural[1].Func = tin.fn
        /\ tin.op \in TypedHelpers =>
             /\ tr.Procedural[1].Color = PayloadOf(tin).Color
             /\ tr.Procedural[1].Fresnel = PayloadOf(tin).Fresnel
             /\ tr.Procedural[1].Irradiance = PayloadOf(tin).Irradiance


\* C17: validation never fails.  Validate and ValidateWithTextureOptions
\* return an issue list for every input, a nil Material and nil option
\* values included: no call aborts.
C17_NeverAborts ==
    pc = "validated" => ~issues.panic


\* the number of stages of m named name
Occurrences(m, name) == Cardinality({k \in DOMAIN m.Stages : m.Stages[k].Name = name})

\* the positions of the 'duplicate Stage name' issues of a list
DuplicateIssues(list) ==
    {i \in DOMAIN list : list[i].Message = "duplicate Stage name"}

\* what Validate returns for the Material of vin with the stages sts
WithStages(sts) ==
    Validate(<<[vin.m[1] EXCEPT !.Stages = sts]>>, vin.opt, vin.files).out

\* the issues of the top level of a Material that has stages: the ones
\* returned when its only stage is a bare Stage0, which triggers none
TopIssues == WithStages(<<NewStage(<<"S","t","a","g","e","0">>)>>)

\* the issues stage k triggers on its own
Own(k) ==
    SubSeq(WithStages(<<vin.m[1].Stages[k]>>), Len(TopIssues) + 1,
           Len(WithStages(<<vin.m[1].Stages[k]>>)))

RECURSIVE OwnUpTo(_)
OwnUpTo(k) == IF k = 0 THEN <<>> ELSE OwnUpTo(k - 1) \o Own(k)

\* list without the issues at the positions of drop
RECURSIVE Without(_, _, _)
Without(list, drop, i) ==
    IF i > Len(list) THEN <<>>
    ELSE (IF i \in drop THEN <<>> ELSE <<list[i]>>) \o Without(list, drop, i + 1)

\* the issues of a list as a bag
BagOf(list) ==
    [x \in {list[i] : i \in DOMAIN list} |-> Cardinality({i \in DOMAIN list : list[i] = x})]

\* C18: duplicate stage names.  For every non-empty name that k stages of
\* m carry, Validate returns exactly k-1 issues 'duplicate Stage name' with
\* that name as path, all of level error; the empty name gets none; and the
\* other issues returned are the ones of the top level and the ones each
\* stage triggers on its own.
C18_DuplicateStageNames ==
    (pc = "validated" /\ vin.op = "Validate" /\ vin.m # <<>>) =>
        LET m == vin.m[1]
            dup == DuplicateIssues(issues.out)
        IN  /\ ~issues.panic
            /\ \A i \in dup :
                 /\ issues.out[i].Level = IssueError
                 /\ issues.out[i].Path # <<>>
                 /\ \E k \in DOMAIN m.Stages : m.Stages[k].Name = issues.out[i].Path
            /\ \A k \in DOMAIN m.Stages :
                 m.Stages[k].Name # <<>> =>
                   Cardinality({i \in dup : issues.out[i].Path = m.Stages[k].Name})
                     = Occurrences(m, m.Stages[k].Name) - 1
            /\ Len(m.Stages) > 0 =>
                 BagOf(Without(issues.out, dup, 1))
                   = BagOf(TopIssues \o OwnUpTo(Len(m.Stages)))

\* a name carried by three stages, two errors for it, and a pair of
\* stages with the empty name
C18_Witness ==
    /\ pc = "validated" /\ vin.op = "Validate" /\ vin.m # <<>>
    /\ \E k \in DOMAIN vin.m[1].Stages :
          /\ Occurrences(vin.m[1], vin.m[1].Stages[k].Name) = 3
          /\ Cardinality({i \in DuplicateIssues(issues.out) :
                             issues.out[i].Path = vin.m[1].Stages[k].Name}) = 2
          /\ \E i \in DOMAIN issues.out :
                /\ issues.out[i].Level = IssueWarning
                /\ issues.out[i].Path = vin.m[1].Stages[k].Name


\* stage st is subject to the UV-wiring check
SubjectToUV(st) ==
    /\ st.Name \notin {<<"S","t","a","g","e","T","I">>, <<"S","t","a","g","e","0">>}
    /\ st.UVSource \notin {<<"n","o","n","e">>, <<"W","o","r","l","d","P","o","s">>}
    /\ st.TexGen = <<>>

\* stage k triggers a warning with this message, its name as path
Warns(k, message) ==
    \E i \in DOMAIN Own(k) :
        Own(k)[i] = Issue(IssueWarning, "", message, vin.m[1].Stages[k].Name)

\* C19: the UV-wiring check.  A stage subject to the check gets the
\* warning 'missing uvSource' exactly when its uvSource is empty and the
\* warning 'missing uvTransform' exactly when its uvTransform is absent:
\* both when both are absent, each one alone when only that one is missing.
\* An exempt stage gets neither.
C19_UVWiring ==
    (pc = "validated" /\ vin.op = "Validate" /\ vin.m # <<>>) =>
        \A k \in DOMAIN vin.m[1].Stages :
            LET st == vin.m[1].Stages[k]
            IN  /\ Warns(k, "stage without texGen missing uvSource")
                     <=> (SubjectToUV(st) /\ st.UVSource = <<>>)
                /\ Warns(k, "stage without texGen missing uvTransform")
                     <=> (SubjectToUV(st) /\ st.UVTransform = <<>>)


\* the check of §4.5 an issue belongs to, by its message
CheckOf(issue) ==
    IF issue.Message \in {"PixelShaderID missing", "VertexShaderID missing"} THEN 1
    ELSE IF issue.Message \in {"unknown PixelShaderID", "unknown VertexShaderID"} THEN 2
    ELSE IF issue.Message = "color must have 4 components" THEN 3
    ELSE IF issue.Message \in {"unexpected texture extension", "texture path contains '..'",
                               "texture file not found"} THEN 4
    ELSE IF issue.Message = "unknown Stage name" THEN 5
    ELSE IF issue.Message \in {"stage without texGen missing uvSource",
                               "stage without texGen missing uvTransform"} THEN 6
    ELSE IF issue.Message = "duplicate Stage name" THEN 7
    ELSE 0

\* C20: issue order follows the check sequence.  In the list Validate
\* returns, for a Material of any number of stages, every issue of an
\* earlier check precedes every issue of a later check, and the list is a
\* function of the Material and the options.
C20_CheckOrder ==
    (pc = "validated" /\ vin.op = "Validate" /\ vin.m # <<>>) =>
        /\ \A i, j \in DOMAIN issues.out :
             i < j => CheckOf(issues.out[i]) <= CheckOf(issues.out[j])
        /\ \A i \in DOMAIN issues.out : CheckOf(issues.out[i]) \in 1..7
        /\ issues = Validate(vin.m, vin.opt, vin.files)


\* the texture checks of the stages of m with every check enabled, as
\* TextureRef.Validate(nil) runs them, with the stage name put before the path
DefaultTextureIssues(m) ==
    textureRefLoop(m.Stages, 1, <<TextureValidateOptionsOf(FALSE, FALSE, FALSE)>>)

\* C21: texture checks default to enabled.  Handed a nil
\* TextureValidateOptions, ValidateWithTextureOptions returns the issues of
\* Validate followed by the issues of each stage's texture reference with
\* the function, argument-count and tag checks all enabled, the stage name
\* put before their path.
C21_TextureChecksDefault ==
    (pc = "validated" /\ vin.op = "ValidateWithTextureOptions" /\ vin.m # <<>>
       /\ vin.texOpt = <<>>) =>
        /\ ~issues.panic
        /\ issues.out = Validate(vin.m, vin.opt, vin.files).out
                          \o DefaultTextureIssues(vin.m[1])


\* the head of a top-level class item as written: "class NAME {" or
\* "class NAME : BASE {"; the words of the item's text
WordsOf(it) == SplitOn(it.t, " ")
IsClassItem(it) == WordsOf(it)[1] = <<"c","l","a","s","s">>
ClassNameOf(it) == WordsOf(it)[2]
ClassBaseOf(it) == IF WordsOf(it)[3] = <<":">> THEN WordsOf(it)[4] ELSE <<>>

\* name starts with the lower-case key, letter case ignored unless o says not
StartsWith(name, key, o) ==
    /\ Len(name) >= Len(key)
    /\ IF o.DisableCaseInsensitive THEN SubSeq(name, 1, Len(key)) = key
       ELSE ToLower(SubSeq(name, 1, Len(key))) = key

\* where the claim sends a top-level class
ListOf(it, o) ==
    IF ClassBaseOf(it) = <<>> /\ StartsWith(ClassNameOf(it), <<"s","t","a","g","e">>, o)
    THEN "Stages"
    ELSE IF StartsWith(ClassNameOf(it), <<"t","e","x","g","e","n">>, o) THEN "TexGens"
    ELSE "extras"

\* the heads (name, base) of the class items of d that the claim sends to list
RECURSIVE HeadsFor(_, _, _)
HeadsFor(d, list, o) ==
    IF d = <<>> THEN <<>>
    ELSE HeadsFor(SubSeq(d, 1, Len(d) - 1), list, o)
         \o (IF IsClassItem(Pool[d[Len(d)]]) /\ ListOf(Pool[d[Len(d)]], o) = list
             THEN <<[name |-> ClassNameOf(Pool[d[Len(d)]]),
                     base |-> ClassBaseOf(Pool[d[Len(d)]])]>>
             ELSE <<>>)

\* the class nodes of a list of nodes
RECURSIVE ClassNodes(_)
ClassNodes(nodes) ==
    IF nodes = <<>> THEN <<>>
    ELSE (IF Head(nodes).type = "classNode" THEN <<Head(nodes)>> ELSE <<>>)
         \o ClassNodes(Tail(nodes))

\* C22: top-level class dispatch.  A top-level class without base whose
\* name starts with 'stage' is appended to Stages; otherwise one whose name
\* starts with 'texgen' is appended to TexGens with its base; every other
\* class, a stageX with a base included, is appended to the extras as a
\* generic class: each class grows exactly one of the three lists.
C22_ClassDispatch ==
    (pc = "parsed" /\ mut = NoMut /\ res.err = NoErr /\ res.m # <<>>) =>
        LET m == res.m[1]
        IN  /\ [k \in DOMAIN m.Stages |-> [name |-> m.Stages[k].Name, base |-> <<>>]]
                 = HeadsFor(doc, "Stages", opt)
            /\ [k \in DOMAIN m.TexGens |-> [name |-> m.TexGens[k].Name, base |-> m.TexGens[k].Base]]
                 = HeadsFor(doc, "TexGens", opt)
            /\ [k \in DOMAIN ClassNodes(m.extras) |->
                  [name |-> ClassNodes(m.extras)[k].Name, base |-> ClassNodes(m.extras)[k].Base]]
                 = HeadsFor(doc, "extras", opt)

\* a document with a stage class that has a base, kept as a generic class
\* beside a stage
C22_Witness ==
    /\ pc = "parsed" /\ mut = NoMut /\ res.err = NoErr /\ Len(doc) = 2
    /\ Len(res.m[1].Stages) = 1
    /\ \E k \in DOMAIN res.m[1].extras :
          /\ res.m[1].extras[k].type = "classNode"
          /\ res.m[1].extras[k].Name = <<"S","t","a","g","e","9">>
          /\ res.m[1].extras[k].Base = <<"B","a","s","e">>
          /\ res.m[1].extras[k].Body # <<>>


\* the characters of a word and of a numeric literal, as the claim lists them
WordPart == Lower \cup Upper \cup Digits \cup {"_", "$", ".", "+", "-"}
NumberPart == Digits \cup {".", "+", "-", "e", "E"}

\* s is a decimal floating-point literal: an optional sign, digits with at
\* most one point among them and at least one digit, and an optional
\* exponent of e or E, an optional sign and at least one digit
IsMantissa(s) ==
    /\ \E k \in DOMAIN s : s[k] \in Digits
    /\ \A k \in DOMAIN s : s[k] \in Digits \cup {"."}
    /\ Cardinality({k \in DOMAIN s : s[k] = "."}) <= 1

IsUnsigned(s) ==
    \/ IsMantissa(s)
    \/ \E k \in DOMAIN s :
          /\ s[k] \in {"e", "E"}
          /\ IsMantissa(SubSeq(s, 1, k - 1))
          /\ \E d \in {k + 1, k + 2} :
                /\ d <= Len(s)
                /\ d = k + 2 => s[k + 1] \in {"+", "-"}
                /\ \A j \in d..Len(s) : s[j] \in Digits

IsFloatLiteral(s) ==
    s # <<>> /\ IsUnsigned(IF s[1] \in {"+", "-"} THEN Tail(s) ELSE s)

\* the longest run of word characters at the start of text
MaximalWord(text) == SubSeq(text, 1, SpanEnd(text, 1, WordPart) - 1)

\* C23: number versus identifier.  A token that starts with a digit or '-'
\* is the maximal word of letters, digits, '_', '$', '.', '+', '-'; it is a
\* number token when all its characters are digits, '.', '+', '-', 'e', 'E'
\* and the word is a floating-point literal, and one identifier token
\* otherwise: never a lex error, never two tokens.
C23_NumberOrIdent ==
    (pc = "lexed" /\ lin.op = "word") =>
        LET w == MaximalWord(lin.text)
            first == calls[1]
        IN  /\ first.err = NoErr
            /\ first.tok.Lit = w
            /\ first.tok.Type =
                 (IF (\A k \in DOMAIN w : w[k] \in NumberPart) /\ IsFloatLiteral(w)
                  THEN "tokNumber" ELSE "tokIdent")
            /\ first.lexed = 1
            /\ lp.text = lin.text
            /\ Len(calls) >= 2 =>
                 calls[2].tok.at = IF calls[2].tok.Type = "tokEOF" THEN Len(lin.text) + 1
                                   ELSE Len(w) + 1 + (IF lin.text[Len(w) + 1] = " " THEN 1 ELSE 0)

\* the word 1specular before a semicolon: one identifier
C23_Witness ==
    /\ pc = "lexed" /\ lin.op = "word"
    /\ calls[1].tok = Token("tokIdent", <<"1","s","p","e","c","u","l","a","r">>, 1)
    /\ Len(calls) = 3
    /\ calls[2].tok.Type = "tokSemicolon"


\* the identifier at the start of text
FirstIdent(text) ==
    SubSeq(text, 1, SpanEnd(text, 1, Lower \cup Upper \cup Digits \cup {"_", "$"}) - 1)

\* C24: the case-insensitive class keyword can be disabled.  With
\* case-insensitivity enabled every letter case of 'class' is the class
\* keyword token; with DisableCaseInsensitive only 'class' itself is, and
\* any other letter case is an identifier.
C24_KeywordToggle ==
    (pc = "lexed" /\ lin.op = "keyword") =>
        /\ calls[1].err = NoErr
        /\ calls[1].tok.Lit = FirstIdent(lin.text)
        /\ calls[1].tok.Type =
             (IF \/ FirstIdent(lin.text) = <<"c","l","a","s","s">>
                 \/ /\ ~lin.opt.DisableCaseInsensitive
                    /\ ToLower(FirstIdent(lin.text)) = <<"c","l","a","s","s">>
              THEN "tokClass" ELSE "tokIdent")


\* raw is wrapped: texture="...
IsWrapped(raw) ==
    HasPrefix(ToLower(TrimSpace(raw)), <<"t","e","x","t","u","r","e","=",Q>>)

\* C25: texture normalization.  The Raw of ParseTextureRef(s) has no
\* white space around it and no trailing '";' or '"' left, a string
\* wrapped as texture="..."; is unwrapped to its inner value, and
\* normalizing a second time changes nothing:
\* ParseTextureRef(ParseTextureRef(s).Raw) = ParseTextureRef(s).
C25_NormalizeIdempotent ==
    (pc = "texref" /\ tin.op = "ParseTextureRef") =>
        /\ tr.Raw = TrimSpace(tr.Raw)
        /\ ~HasSuffix(tr.Raw, <<Q, ";">>)
        /\ ~HasSuffix(tr.Raw, <<Q>>)
        /\ IsWrapped(tin.raw) => ~IsWrapped(tr.Raw)
        /\ ParseTextureRef(tr.Raw) = tr


\* the tokens of the calls of op among the first n calls
RECURSIVE TokensOf(_, _)
TokensOf(op, n) ==
    IF n = 0 THEN <<>>
    ELSE TokensOf(op, n - 1) \o (IF calls[n].op = op THEN <<calls[n].tok>> ELSE <<>>)

\* the tokens lexer.next returns for text from position i on, EOF repeated,
\* the first n of them
RECURSIVE LexerTokens(_, _, _)
LexerTokens(text, i, n) ==
    IF n = 0 THEN <<>>
    ELSE LET r == lexNext(text, i, DefaultParseOptions)
         IN  <<r.tok>> \o (IF r.err # NoErr THEN <<>> ELSE LexerTokens(text, r.next, n - 1))

\* the calls before call n that returned without error
Succeeded(n) == \A k \in 1..n : calls[k].err = NoErr

\* C26: one token of lookahead.  A peek returns the next token and does not
\* consume it: peeks in a row return the same token and ask the lexer for
\* at most one; the next that follows returns that token and empties the
\* buffer; and the tokens returned by next are the lexer's tokens in order,
\* each once.
C26_OneTokenLookahead ==
    (pc = "scanning") =>
        /\ \A n \in DOMAIN calls :
             Succeeded(n) =>
               /\ n > 1 /\ calls[n - 1].op = "peek" =>
                    /\ calls[n].tok = calls[n - 1].tok
                    /\ calls[n].lexed = calls[n - 1].lexed
               /\ (n = 1 \/ calls[n - 1].op = "next") =>
                    calls[n].lexed = (IF n = 1 THEN 0 ELSE calls[n - 1].lexed) + 1
               /\ TokensOf("next", n)
                    = LexerTokens(lin.text, 1, Len(TokensOf("next", n)))
        /\ (calls # <<>> /\ Succeeded(Len(calls))) =>
             lp.has = (calls[Len(calls)].op = "peek")

\* peek, peek, next, next, peek on a=1; : the name twice, the name, the
\* equal sign, the number
C26_Witness ==
    /\ pc = "scanning" /\ Len(calls) = 5 /\ Succeeded(5)
    /\ [k \in 1..5 |-> calls[k].op] = <<"peek", "peek", "next", "next", "peek">>
    /\ [k \in 1..5 |-> calls[k].tok.Type]
         = <<"tokIdent", "tokIdent", "tokIdent", "tokEqual", "tokNumber">>
    /\ lp.has


\* the number of tokens the lexer finds in the text of src before its end,
\* a token it fails on counted as one
TokenCount == Len(TokensFrom(LexText(src), newLexer(LexText(src)), opt))

\* an error without the position it was found at
Kind(err) == [kind |-> err.kind, msg |-> err.msg]

\* C27: termination.  Parse returns a Material or an error on every input,
\* cut off anywhere or with an unclosed string or block comment anywhere:
\* it asks the lexer for no more than two tokens beyond those of the text,
\* an input that ends inside a block comment is parsed as the input cut off
\* there, and once the lexer has returned EOF every further request
\* returns EOF.
C27_Terminates ==
    /\ (pc = "parsed" /\ mut # NoMut) =>
         /\ (res.err = NoErr /\ res.m # <<>>) \/ (res.err # NoErr /\ res.m = <<>>)
         /\ res.lexed <= TokenCount + 2
         /\ ( /\ mut.kind = "open" /\ ~opt.DisableComments
              /\ mut.k \in GapsFrom(Bases[mut.base], 1) ) =>
                LET r == Decode([pad |-> 0, body |-> Damage(Bases[mut.base], "cut", mut.k)], opt)
                IN  res.m = r.m /\ Kind(res.err) = Kind(r.err)
    /\ pc = "scanning" =>
         \A n \in DOMAIN calls :
             (n > 1 /\ calls[n - 1].tok.Type = "tokEOF" /\ calls[n - 1].err = NoErr) =>
                 calls[n].tok.Type = "tokEOF" /\ calls[n].err = NoErr

\* an input cut off behind the opening brace of a numeric array of a
\* uvTransform: Parse fails after two requests beyond the tokens of the text
C27_Witness ==
    /\ pc = "parsed" /\ mut.kind = "cut" /\ mut.base = 2
    /\ src.body # <<>> /\ src.body[Len(src.body)] = "{"
    /\ res.err.kind = "ErrParse" /\ res.m = <<>>
    /\ res.lexed = TokenCount + 2


(***************************************************************************)
(* The nesting of the written blocks.                                      *)
(***************************************************************************)
\* the lines of a written text: what stands before each line feed
LinesOf(t) == IF t = <<>> THEN <<>> ELSE SplitOn(SubSeq(t, 1, Len(t) - 1), NL)

RECURSIVE LeadingSpaces(_)
LeadingSpaces(l) == IF l # <<>> /\ l[1] = " " THEN 1 + LeadingSpaces(Tail(l)) ELSE 0

Stripped(l) == SubSeq(l, LeadingSpaces(l) + 1, Len(l))
Opens(l) == Stripped(l) = <<"{">>
Closes(l) == Stripped(l) = <<"}", ";">>

\* the number of blocks that are open before line k
RECURSIVE DepthAt(_, _)
DepthAt(ls, k) ==
    IF k <= 1 THEN 0
    ELSE DepthAt(ls, k - 1) + (IF Opens(ls[k - 1]) THEN 1 ELSE IF Closes(ls[k - 1]) THEN -1 ELSE 0)

\* the blocks that enclose line k: a closing line stands outside its block
Enclosing(ls, k) == IF Closes(ls[k]) THEN DepthAt(ls, k) - 1 ELSE DepthAt(ls, k)

\* every line is indented once per enclosing block, no block is closed that
\* was not opened, none is left open, and every "{" line has its "};" line
\* at the same indentation with only deeper lines between them
Nested(ls) ==
    /\ \A k \in DOMAIN ls :
          /\ Enclosing(ls, k) >= 0
          /\ LeadingSpaces(ls[k]) = Len(DefaultIndent) * Enclosing(ls, k)
    /\ DepthAt(ls, Len(ls) + 1) = 0
    /\ \A k \in DOMAIN ls :
          Opens(ls[k]) =>
              \E j \in (k + 1)..Len(ls) :
                  /\ Closes(ls[j])
                  /\ LeadingSpaces(ls[j]) = LeadingSpaces(ls[k])
                  /\ \A i \in (k + 1)..(j - 1) : LeadingSpaces(ls[i]) > LeadingSpaces(ls[k])

HasBreak(s) == \E i \in DOMAIN s : s[i] = NL

RECURSIVE ValueBreaks(_), NodeBreaks(_)
ValueBreaks(v) ==
    CASE v.Kind \in {"valueString", "valueIdent"} -> HasBreak(v.Str)
      [] v.Kind = "valueArray" -> \E i \in DOMAIN v.Array : ValueBreaks(v.Array[i])
      [] OTHER -> FALSE

NodeBreaks(n) ==
    IF n.type = "assignNode" THEN HasBreak(n.Name) \/ ValueBreaks(n.Value)
    ELSE IF n.type = "classNode"
    THEN HasBreak(n.Name) \/ HasBreak(n.Base) \/ \E i \in DOMAIN n.Body : NodeBreaks(n.Body[i])
    ELSE FALSE

\* some name or string of the Material holds a line feed
MultiLine(m) ==
    \/ HasBreak(m.PixelShaderID) \/ HasBreak(m.VertexShaderID)
    \/ \E i \in DOMAIN m.Stages :
          \/ HasBreak(m.Stages[i].Name) \/ HasBreak(m.Stages[i].Texture.Raw)
          \/ HasBreak(m.Stages[i].UVSource) \/ HasBreak(m.Stages[i].TexGen)
          \/ \E j \in DOMAIN m.Stages[i].extras : NodeBreaks(m.Stages[i].extras[j])
    \/ \E i \in DOMAIN m.TexGens :
          \/ HasBreak(m.TexGens[i].Name) \/ HasBreak(m.TexGens[i].Base)
          \/ HasBreak(m.TexGens[i].UVSource)
          \/ \E j \in DOMAIN m.TexGens[i].extras : NodeBreaks(m.TexGens[i].extras[j])
    \/ \E j \in DOMAIN m.extras : NodeBreaks(m.extras[j])

Written == pc \in {"formatted", "reparsed", "done"} /\ mat # <<>>

\* C28 as stated: Format of a Material that was built or parsed leaves the
\* writer without error at level 0, and in its output every line is indented by the indent string once per enclosing
\* block and every "{" line is matched by a later "};" line at the same
\* indentation.
C28_NestedLines ==
    mat # <<>> =>
        /\ Encode(mat[1], <<>>).err = NoErr
        /\ Encode(mat[1], <<>>).level = 0
        /\ Written => out = Encode(mat[1], <<>>).buf
        /\ Nested(LinesOf(Format(mat[1], <<>>)))

\* C28, amended: Format of a Material that was built or parsed leaves the
\* writer without error at nesting level 0;
\* when no name or string of the Material holds a line feed, every line of
\* the output is indented by the indent string once per enclosing Stage,
\* TexGen, uvTransform or generic class block, the depth is never negative,
\* and every "{" line is matched by a later "};" line at the same
\* indentation.
C28_BalancedNesting ==
    mat # <<>> =>
        /\ Encode(mat[1], <<>>).err = NoErr
        /\ Encode(mat[1], <<>>).level = 0
        /\ Written => out = Encode(mat[1], <<>>).buf
        /\ ~MultiLine(mat[1]) => Nested(LinesOf(Format(mat[1], <<>>)))

\* a written Material with a uvTransform in a Stage and a class inside a class
C28_Witness ==
    /\ Written
    /\ ~MultiLine(mat[1])
    /\ \E k \in DOMAIN LinesOf(out) : DepthAt(LinesOf(out), k) = 1 /\ Opens(LinesOf(out)[k])
    /\ \E k \in DOMAIN LinesOf(out) : Enclosing(LinesOf(out), k) = 2
    /\ \E i \in DOMAIN mat[1].Stages : mat[1].Stages[i].UVTransform # <<>>
    /\ \E j \in DOMAIN mat[1].extras :
          /\ mat[1].extras[j].type = "classNode"
          /\ \E i \in DOMAIN mat[1].extras[j].Body : mat[1].extras[j].Body[i].type = "classNode"

(***************************************************************************)
(* The entries of a uvTransform body.                                      *)
(***************************************************************************)
UVLoaded == pc \in {"parsed", "formatted", "reparsed", "done"} /\ mut.kind \in DOMAIN UVOwners

\* an entry that is no array: a scalar assignment or a nested class
Malformed(es) == \E i \in DOMAIN es : UVEntries[es[i]].form # "array"

NamedAs(e, key, ci) == IF ci THEN ToLower(UVEntries[e].key) = key ELSE UVEntries[e].key = key

\* the numbers of the last entry of es named key; none when there is no such
LastOf(es, key, ci) ==
    LET at == {i \in DOMAIN es : NamedAs(es[i], key, ci)}
    IN  IF at = {} THEN <<>>
        ELSE UVEntries[es[CHOOSE i \in at : \A j \in at : j <= i]].vals

ExpectedUV(es, ci) ==
    [Aside |-> LastOf(es, <<"a","s","i","d","e">>, ci), Up  |-> LastOf(es, <<"u","p">>, ci),
     Dir   |-> LastOf(es, <<"d","i","r">>, ci),   Pos |-> LastOf(es, <<"p","o","s">>, ci)]

\* the entries of es whose name is none of the four
OtherEntries(es, ci) ==
    {es[i] : i \in {j \in DOMAIN es :
                      \A key \in {<<"a","s","i","d","e">>, <<"u","p">>, <<"d","i","r">>, <<"p","o","s">>} : ~NamedAs(es[j], key, ci)}}

HasAssign(extras, name) ==
    \E j \in DOMAIN extras : extras[j].type = "assignNode" /\ extras[j].Name = name

HasClass(extras, name) ==
    \E j \in DOMAIN extras : extras[j].type = "classNode" /\ extras[j].Name = name

\* the name a Stage or a TexGen is written with
WrittenAs(name, default) == IF name = <<>> THEN default ELSE name

LowStage(s)  == HasPrefix(WrittenAs(s.Name, <<"S","t","a","g","e">>), <<"s","t","a","g","e">>)
LowTexGen(t) == HasPrefix(WrittenAs(t.Name, <<"T","e","x","G","e","n">>), <<"t","e","x","g","e","n">>)

NamesOf(list) == [i \in DOMAIN list |-> list[i].Name]

\* C30: Parse(Format(m)) with DisableCaseInsensitive.  Whenever Format(m)
\* parses with the default options it parses case-sensitively too, and then
\* ForcedDiffuse, SpecularPower, PixelShaderID and VertexShaderID are empty
\* and the items written as forcedDiffuse, specularPower, PixelShaderID and
\* VertexShaderID are extras; Ambient, Diffuse, Emmisive and Specular are
\* those of m; a Stage or TexGen written with a name that does not begin
\* with lower-case 'stage' or 'texgen' is a generic class of the extras and
\* the Stages and TexGens lists hold only the others; in those, texture is
\* recognized while uvSource and texGen are extras of the stage.
C30_CaseSensitiveReparse ==
    (pc = "recased" /\ Decode([pad |-> 0, body |-> out], DefaultParseOptions).err = NoErr) =>
        /\ res2.err = NoErr /\ res2.m # <<>>
        /\ LET m  == mat[1]
               m2 == res2.m[1]
               st == SelectSeq(m.Stages, LowStage)
               tg == SelectSeq(m.TexGens, LowTexGen)
           IN  /\ m2.ForcedDiffuse = <<>> /\ m2.SpecularPower = <<>>
               /\ m2.PixelShaderID = <<>> /\ m2.VertexShaderID = <<>>
               /\ m.ForcedDiffuse # <<>> => HasAssign(m2.extras, <<"f","o","r","c","e","d","D","i","f","f","u","s","e">>)
               /\ m.SpecularPower # <<>> => HasAssign(m2.extras, <<"s","p","e","c","u","l","a","r","P","o","w","e","r">>)
               /\ m.PixelShaderID # <<>> => HasAssign(m2.extras, <<"P","i","x","e","l","S","h","a","d","e","r","I","D">>)
               /\ m.VertexShaderID # <<>> => HasAssign(m2.extras, <<"V","e","r","t","e","x","S","h","a","d","e","r","I","D">>)
               /\ m2.Ambient = m.Ambient /\ m2.Diffuse = m.Diffuse
               /\ m2.Emmisive = m.Emmisive /\ m2.Specular = m.Specular
               /\ NamesOf(m2.Stages) = NamesOf(st)
               /\ NamesOf(m2.TexGens) = NamesOf(tg)
               /\ \A i \in DOMAIN m.Stages :
                     ~LowStage(m.Stages[i]) =>
                         HasClass(m2.extras, WrittenAs(m.Stages[i].Name, <<"S","t","a","g","e">>))
               /\ \A i \in DOMAIN m.TexGens :
                     ~LowTexGen(m.TexGens[i]) =>
                         HasClass(m2.extras, WrittenAs(m.TexGens[i].Name, <<"T","e","x","G","e","n">>))
               /\ \A i \in DOMAIN st :
                     /\ m2.Stages[i].Texture = st[i].Texture
                     /\ m2.Stages[i].UVSource = <<>> /\ m2.Stages[i].TexGen = <<>>
                     /\ st[i].TexGen # <<>> => HasAssign(m2.Stages[i].extras, <<"t","e","x","G","e","n">>)
                     /\ (st[i].UVSource # <<>> /\ st[i].TexGen = <<>>) =>
                            HasAssign(m2.Stages[i].extras, <<"u","v","S","o","u","r","c","e">>)
               /\ \A i \in DOMAIN tg :
                     /\ m2.TexGens[i].UVSource = <<>>
                     /\ tg[i].UVSource # <<>> => HasAssign(m2.TexGens[i].extras, <<"u","v","S","o","u","r","c","e">>)

\* a built Material with colours, shader ids and a Stage1 with a texture:
\* read back case-sensitively it keeps ambient and has no stage
C30_Witness ==
    /\ pc = "recased" /\ res2.err = NoErr /\ res2.m # <<>>
    /\ mat[1].ForcedDiffuse # <<>> /\ mat[1].PixelShaderID # <<>>
    /\ Len(mat[1].Stages) = 1 /\ mat[1].Stages[1].Name = <<"S","t","a","g","e","1">>
    /\ res2.m[1].Ambient = mat[1].Ambient /\ res2.m[1].Ambient # <<>>
    /\ res2.m[1].Stages = <<>>
    /\ HasClass(res2.m[1].extras, <<"S","t","a","g","e","1">>)
    /\ HasAssign(res2.m[1].extras, <<"f","o","r","c","e","d","D","i","f","f","u","s","e">>)
=============================================================================
